---------------------------- MODULE Spec2Model ----------------------------
(***************************************************************************)
(* A model of the multi-source job search assistant (src/app.py and        *)
(* src/function_tool.py).                                                  *)
(*                                                                         *)
(* Python values are modelled as tagged records so that values of          *)
(* different Python types can live in one collection:                      *)
(*   None -> Null, str -> Str(s), int -> Num(n), bool -> Bool(b),          *)
(*   dict -> Dict(f) with f a function from keys to values,                *)
(*   list -> List(s) with s a sequence of values.                          *)
(* A Python str is a sequence of tokens; a token is one character, or one  *)
(* literal chunk of text that the program never looks inside.              *)
(***************************************************************************)
EXTENDS Integers, Sequences, FiniteSets, TLC

VARIABLES
    \* ---- src/app.py: JobSearchAgent and launch_app.respond ----
    env,          \* os.environ: variable name -> Null (unset) or Str(value)
    agent,        \* JobSearchAgent._agent: NoAgent or the instance number
    lock,         \* JobSearchAgent._lock: NoTask (free) or the task holding it
    constructed,  \* how many times create_react_agent has been called
    pc,           \* per task: where the coroutine is
    entry,        \* per task: "respond" or "ainvoke" (who was called)
    prompt,       \* per task: the stripped prompt handed to ainvoke
    hist,         \* per task: the (user, assistant) tuples handed to ainvoke
    got,          \* per task: what _ensure_agent returned to it
    sent,         \* per task: the message list sent to the model
    net,          \* per task: the network-facing steps the request has made
    out,          \* per task: how the call ended ([kind, v])
    arg,          \* per task: the message or prompt the call was given
    past,         \* per task: the history the call was given
    reply,        \* per task: the result agent.ainvoke handed back
    \* ---- src/function_tool.py: the job API clients ----
    call,         \* the client operation called last and its arguments
    http,         \* the HTTP requests that call issued, in order
    ret,          \* what that call handed back ([kind, v])
    upstream,     \* how the remote service answers a request
    \* ---- src/function_tool.py: the description cleaner ----
    html_in,      \* the JobDescription given
    text_out      \* the description produced ([kind, v])

agentVars == <<env, agent, lock, constructed, pc, entry, prompt, hist, got, sent, net, out,
               arg, past, reply>>
clientVars == <<call, http, ret, upstream>>
htmlVars == <<html_in, text_out>>
vars == <<agentVars, clientVars, htmlVars>>

---------------------------------------------------------------------------
\* Bounds of the model.
NumTasks == 2        \* concurrent callers
MaxText == 2         \* longest user text, in characters
MaxTurns == 2        \* longest history of one kind of turn
MaxToolCalls == 1    \* job API requests the model makes within one invocation
MaxJobs == 2         \* entries in one upstream response that is aggregated
MaxHtmlHead == 2     \* markup tokens in front of the body of a description

---------------------------------------------------------------------------
\* Python values.
Null == [t |-> "null"]
Str(s) == [t |-> "str", v |-> s]
Num(n) == [t |-> "num", v |-> n]
Bool(b) == [t |-> "bool", v |-> b]
Dict(f) == [t |-> "dict", v |-> f]
List(s) == [t |-> "list", v |-> s]
EmptyDict == Dict(<<>>)

\* bool(x)
Truthy(x) ==
    CASE x.t = "null" -> FALSE
      [] x.t = "str"  -> x.v # <<>>
      [] x.t = "num"  -> x.v # 0
      [] x.t = "bool" -> x.v
      [] x.t = "dict" -> DOMAIN x.v # {}
      [] x.t = "list" -> x.v # <<>>

\* x or y
PyOr(x, y) == IF Truthy(x) THEN x ELSE y

\* d.get(k, default) on a dict d
Get(d, k, default) == IF k \in DOMAIN d.v THEN d.v[k] ELSE default

\* str(x), as a token sequence
PyStr(x) ==
    CASE x.t = "str"  -> x.v
      [] x.t = "null" -> <<"None">>
      [] x.t = "num"  -> <<ToString(x.v)>>
      [] x.t = "bool" -> IF x.v THEN <<"True">> ELSE <<"False">>
      [] OTHER        -> <<"repr">>

Whitespace == {" ", "\n"}

RECURSIVE LStrip(_)
LStrip(s) == IF s # <<>> /\ Head(s) \in Whitespace THEN LStrip(Tail(s)) ELSE s

RECURSIVE RStrip(_)
RStrip(s) ==
    IF s # <<>> /\ s[Len(s)] \in Whitespace THEN RStrip(SubSeq(s, 1, Len(s) - 1)) ELSE s

\* A mutant of Strip: the text is used as typed.
StripNoOp(s) == s

\* str.strip()
Strip(s) == RStrip(LStrip(s))

---------------------------------------------------------------------------
\* src/app.py: the conversational orchestrator.

NoAgent == 0
NoTask == 0
Tasks == 1..NumTasks

SYSTEM_PROMPT == <<"SYSTEM_PROMPT">>
EmptyNotice == <<"The agent returned an empty response.">>
EnterQuestion == <<"Please enter a question about jobs.">>
PromptEmptyError == <<"Prompt cannot be empty.">>
GoogleKeyError == <<"GOOGLE_API_KEY environment variable is not set.">>
ModelError == <<"model request failed">>

Returned(v) == [kind |-> "return", v |-> v]
Raised(v) == [kind |-> "raise", v |-> v]
NoOutcome == [kind |-> "none", v |-> <<>>]

\* respond: the text of a message that is a str or a dict with a "text" key
MessageText(message) ==
    IF message.t = "dict"
    THEN Strip(PyOr(Get(message, "text", Str(<<>>)), Str(<<>>)).v)
    ELSE Strip(PyOr(message, Str(<<>>)).v)

\* normalize_history: one turn as a <<user, assistant>> pair, or <<>> for a
\* turn that is skipped
NormalizeTurn(turn) ==
    IF turn.t = "dict"
    THEN << <<PyStr(PyOr(PyOr(Get(turn, "user", Null), Get(turn, "input", Null)), Str(<<>>))),
              PyStr(PyOr(PyOr(Get(turn, "assistant", Null), Get(turn, "output", Null)), Str(<<>>)))>> >>
    ELSE IF turn.t = "list" /\ Len(turn.v) >= 2
    THEN << <<PyStr(PyOr(turn.v[1], Str(<<>>))), PyStr(PyOr(turn.v[2], Str(<<>>)))>> >>
    ELSE <<>>

RECURSIVE NormalizeTurns(_)
NormalizeTurns(turns) ==
    IF turns = <<>> THEN <<>>
    ELSE NormalizeTurn(Head(turns)) \o NormalizeTurns(Tail(turns))

normalize_history(history) ==
    IF ~Truthy(history) THEN <<>> ELSE NormalizeTurns(history.v)

SystemMessage(c) == [role |-> "system", content |-> c]
HumanMessage(c) == [role |-> "human", content |-> c]
AIMessage(c) == [role |-> "ai", content |-> c]

\* A mutant of HistoryMessages: the assistant's text of a turn is appended
\* before the user's.
RECURSIVE HistoryMessagesAssistantFirst(_)
HistoryMessagesAssistantFirst(h) ==
    IF h = <<>> THEN <<>>
    ELSE (IF Head(h)[2] # <<>> THEN <<AIMessage(Head(h)[2])>> ELSE <<>>)
         \o (IF Head(h)[1] # <<>> THEN <<HumanMessage(Head(h)[1])>> ELSE <<>>)
         \o HistoryMessagesAssistantFirst(Tail(h))

\* ainvoke, lines 296-300: the messages of the prior turns
RECURSIVE HistoryMessages(_)
HistoryMessages(h) ==
    IF h = <<>> THEN <<>>
    ELSE (IF Head(h)[1] # <<>> THEN <<HumanMessage(Head(h)[1])>> ELSE <<>>)
         \o (IF Head(h)[2] # <<>> THEN <<AIMessage(Head(h)[2])>> ELSE <<>>)
         \o HistoryMessages(Tail(h))

\* ainvoke, lines 291-301: the message list sent to the model
BuildMessages(p, h) ==
    <<SystemMessage(SYSTEM_PROMPT)>> \o HistoryMessages(h) \o <<HumanMessage(p)>>

\* "\n".join(parts)
RECURSIVE Join(_)
Join(parts) ==
    IF parts = <<>> THEN <<>>
    ELSE IF Len(parts) = 1 THEN Head(parts)
    ELSE Head(parts) \o <<"\n">> \o Join(Tail(parts))

\* ainvoke, lines 316-319: the "text" of each dict item that has one
RECURSIVE TextParts(_)
TextParts(items) ==
    IF items = <<>> THEN <<>>
    ELSE (IF Head(items).t = "dict" /\ "text" \in DOMAIN Head(items).v
          THEN <<Head(items).v["text"].v>> ELSE <<>>)
         \o TextParts(Tail(items))

\* str(final_message): the message's printed representation
MessageRepr(m) == <<"content=">> \o PyStr(Get(m, "content", Null))

\* ainvoke, lines 309-323: the text taken from the final message
FinalText(final) ==
    LET content == Get(final, "content", Null)
    IN  IF content.t = "str"
        THEN (IF Strip(content.v) # <<>> THEN Strip(content.v) ELSE EmptyNotice)
        ELSE IF content.t = "list" /\ TextParts(content.v) # <<>>
        THEN Join(TextParts(content.v))
        ELSE MessageRepr(final)

\* ainvoke, lines 305-323: the text returned for the model's result
ParseReply(result) ==
    LET messages_output ==
            IF result.t = "dict" THEN Get(result, "messages", Null) ELSE Null
    IN  IF ~Truthy(messages_output) THEN EmptyNotice
        ELSE FinalText(messages_output.v[Len(messages_output.v)])

---------------------------------------------------------------------------
\* Inputs of the orchestrator.

SeqsUpTo(S, n) == UNION {[1..k -> S] : k \in 0..n}
Texts == SeqsUpTo({" ", "a"}, MaxText)

\* What the chat surface hands to respond as the message.
Messages ==
    {Str(x) : x \in Texts} \cup {Null, EmptyDict, Dict([text |-> Null])}
    \cup {Dict([text |-> Str(x)]) : x \in Texts}

\* What the chat surface hands to respond as the history.
Histories ==
    LET Turns ==
            {List(<<Str(<<"a">>), Str(<<"a", "a">>)>>), List(<<Str(<<"a">>), Null>>),
             List(<<Str(<<>>), Str(<<"a">>)>>), List(<<Str(<<"a">>)>>),
             Dict([user |-> Str(<<"a">>), assistant |-> Str(<<" ">>)]),
             Dict([input |-> Str(<<"a", " ">>), output |-> Str(<<"a">>)]),
             Str(<<"a">>)}
    IN  {Null} \cup {List(h) : h \in SeqsUpTo(Turns, 1)}
        \cup {List(h) : h \in SeqsUpTo({List(<<Str(<<"a">>), Str(<<"b">>)>>),
                                        List(<<Str(<<"c">>), Str(<<>>)>>)}, MaxTurns)}

\* What a direct caller hands to ainvoke as the history.
TupleHistories == SeqsUpTo({<< <<"a">>, <<"a", "a">> >>, << <<>>, <<"a">> >>}, MaxTurns)

\* What agent.ainvoke can hand back.
Replies ==
    LET ContentItems == {Dict([text |-> Str(<<"a">>)]), Dict([text |-> Str(<<>>)]),
                         Dict([type |-> Str(<<"image_url">>)]), Str(<<"a">>)}
        Contents == {Str(x) : x \in Texts} \cup {Null}
                    \cup {List(c) : c \in SeqsUpTo(ContentItems, 2)}
        FinalMessages == {Dict([content |-> c]) : c \in Contents} \cup {EmptyDict}
    IN  {Null, EmptyDict, Dict([messages |-> List(<<>>)]), Dict([messages |-> Null])}
        \cup {Dict([messages |-> List(<<m>>)]) : m \in FinalMessages}
        \cup {Dict([messages |-> List(<<Dict([content |-> Str(<<"a">>)]), m>>)]) :
                m \in FinalMessages}


---------------------------------------------------------------------------
\* Actions of the orchestrator.

\* The state of a fresh JobSearchAgent in a process whose environment is e.
AgentIdle(e) ==
    /\ env = e
    /\ agent = NoAgent
    /\ lock = NoTask
    /\ constructed = 0
    /\ pc = [t \in Tasks |-> "idle"]
    /\ entry = [t \in Tasks |-> "none"]
    /\ prompt = [t \in Tasks |-> <<>>]
    /\ hist = [t \in Tasks |-> <<>>]
    /\ got = [t \in Tasks |-> NoAgent]
    /\ sent = [t \in Tasks |-> <<>>]
    /\ net = [t \in Tasks |-> [construct |-> 0, model |-> 0, jobapi |-> 0]]
    /\ out = [t \in Tasks |-> NoOutcome]
    /\ arg = [t \in Tasks |-> Null]
    /\ past = [t \in Tasks |-> Null]
    /\ reply = [t \in Tasks |-> Null]

\* No client operation has been called.
ClientIdle ==
    /\ call = [op |-> "none"]
    /\ http = <<>>
    /\ ret = NoOutcome

\* No description has been handed to the cleaner.
HtmlIdle ==
    /\ html_in = <<>>
    /\ text_out = NoOutcome

EnvValues == {Null, Str(<<>>), Str(<<"set">>)}
Environment(g, id, key) == [GOOGLE_API_KEY |-> g, ADZUNA_APP_ID |-> id, ADZUNA_APP_KEY |-> key]

InitAgent ==
    /\ \E g \in EnvValues : AgentIdle(Environment(g, Null, Null))
    /\ ClientIdle
    /\ upstream = [kind |-> "timeout"]
    /\ HtmlIdle

\* How an exception raised inside ainvoke reaches the caller: respond turns
\* it into a warning text, a direct caller of ainvoke sees it raised.
Fault(t, msg) ==
    IF entry[t] = "respond" THEN Returned(<<"Warning: ">> \o msg) ELSE Raised(msg)

\* ainvoke up to its first await: strip the prompt, reject an empty one.
AinvokeEnter(t, who, p, h) ==
    /\ entry' = [entry EXCEPT ![t] = who]
    /\ IF Strip(p) = <<>>
       THEN /\ out' = [out EXCEPT ![t] =
                          IF who = "respond"
                          THEN Returned(<<"Warning: ">> \o PromptEmptyError)
                          ELSE Raised(PromptEmptyError)]
            /\ pc' = [pc EXCEPT ![t] = "done"]
            /\ UNCHANGED <<prompt, hist>>
       ELSE /\ prompt' = [prompt EXCEPT ![t] = Strip(p)]
            /\ hist' = [hist EXCEPT ![t] = h]
            /\ pc' = [pc EXCEPT ![t] = "ensure"]
            /\ UNCHANGED out

\* launch_app.respond(message, history), up to the first await.
Respond(t, message, history) ==
    /\ pc[t] = "idle"
    /\ IF MessageText(message) = <<>>
       THEN /\ out' = [out EXCEPT ![t] = Returned(EnterQuestion)]
            /\ pc' = [pc EXCEPT ![t] = "done"]
            /\ entry' = [entry EXCEPT ![t] = "respond"]
            /\ UNCHANGED <<prompt, hist>>
       ELSE AinvokeEnter(t, "respond", MessageText(message), normalize_history(history))
    /\ arg' = [arg EXCEPT ![t] = message]
    /\ past' = [past EXCEPT ![t] = history]
    /\ UNCHANGED <<env, agent, lock, constructed, got, sent, net, reply>>
    /\ UNCHANGED <<clientVars, htmlVars>>

\* JobSearchAgent.ainvoke(prompt, history) called directly.
Ainvoke(t, p, h) ==
    /\ pc[t] = "idle"
    /\ AinvokeEnter(t, "ainvoke", p, h)
    /\ arg' = [arg EXCEPT ![t] = Str(p)]
    /\ past' = [past EXCEPT ![t] =
                  List([i \in 1..Len(h) |-> List(<<Str(h[i][1]), Str(h[i][2])>>)])]
    /\ UNCHANGED <<env, agent, lock, constructed, got, sent, net, reply>>
    /\ UNCHANGED <<clientVars, htmlVars>>

\* _ensure_agent, lines 260-261: the check made without the lock.
EnsureCheck1(t) ==
    /\ pc[t] = "ensure"
    /\ IF agent # NoAgent
       THEN /\ got' = [got EXCEPT ![t] = agent]
            /\ pc' = [pc EXCEPT ![t] = "invoke"]
       ELSE /\ pc' = [pc EXCEPT ![t] = "lock"]
            /\ UNCHANGED got
    /\ UNCHANGED <<env, agent, lock, constructed, entry, prompt, hist, sent, net, out, arg, past, reply>>
    /\ UNCHANGED <<clientVars, htmlVars>>

\* _ensure_agent, line 263: async with self._lock waits until the lock is free.
EnsureAcquire(t) ==
    /\ pc[t] = "lock"
    /\ lock = NoTask
    /\ lock' = t
    /\ pc' = [pc EXCEPT ![t] = "locked"]
    /\ UNCHANGED <<env, agent, constructed, entry, prompt, hist, got, sent, net, out, arg, past, reply>>
    /\ UNCHANGED <<clientVars, htmlVars>>

\* A mutant of EnsureCheck2: no second check once the lock is held.
EnsureCheck2Skipped(t) ==
    /\ pc[t] = "locked"
    /\ pc' = [pc EXCEPT ![t] = "envcheck"]
    /\ UNCHANGED <<env, agent, lock, constructed, entry, prompt, hist, got, sent, net, out, arg, past, reply>>
    /\ UNCHANGED <<clientVars, htmlVars>>

\* _ensure_agent, lines 264-265: the check repeated under the lock; the return
\* leaves the async with block, which releases the lock.
EnsureCheck2(t) ==
    /\ pc[t] = "locked"
    /\ IF agent # NoAgent
       THEN /\ got' = [got EXCEPT ![t] = agent]
            /\ lock' = NoTask
            /\ pc' = [pc EXCEPT ![t] = "invoke"]
       ELSE /\ pc' = [pc EXCEPT ![t] = "envcheck"]
            /\ UNCHANGED <<got, lock>>
    /\ UNCHANGED <<env, agent, constructed, entry, prompt, hist, sent, net, out, arg, past, reply>>
    /\ UNCHANGED <<clientVars, htmlVars>>

\* A mutant of EnsureEnv: the RuntimeError leaves with the lock still held
\* (a lock acquired and released by hand, with no finally).
EnsureEnvLockKept(t) ==
    /\ pc[t] = "envcheck"
    /\ IF ~Truthy(env["GOOGLE_API_KEY"])
       THEN /\ out' = [out EXCEPT ![t] = Fault(t, GoogleKeyError)]
            /\ pc' = [pc EXCEPT ![t] = "done"]
            /\ UNCHANGED lock
       ELSE /\ pc' = [pc EXCEPT ![t] = "construct"]
            /\ UNCHANGED <<lock, out>>
    /\ UNCHANGED <<env, agent, constructed, entry, prompt, hist, got, sent, net, arg, past, reply>>
    /\ UNCHANGED <<clientVars, htmlVars>>

\* _ensure_agent, lines 267-268: no credential, the RuntimeError leaves the
\* async with block, which releases the lock.
EnsureEnv(t) ==
    /\ pc[t] = "envcheck"
    /\ IF ~Truthy(env["GOOGLE_API_KEY"])
       THEN /\ lock' = NoTask
            /\ out' = [out EXCEPT ![t] = Fault(t, GoogleKeyError)]
            /\ pc' = [pc EXCEPT ![t] = "done"]
       ELSE /\ pc' = [pc EXCEPT ![t] = "construct"]
            /\ UNCHANGED <<lock, out>>
    /\ UNCHANGED <<env, agent, constructed, entry, prompt, hist, got, sent, net, arg, past, reply>>
    /\ UNCHANGED <<clientVars, htmlVars>>

\* _ensure_agent, lines 279-280: the model client and the agent are built.
EnsureConstruct(t) ==
    /\ pc[t] = "construct"
    /\ constructed' = constructed + 1
    /\ agent' = constructed + 1
    /\ net' = [net EXCEPT ![t].construct = 1]
    /\ pc' = [pc EXCEPT ![t] = "unlock"]
    /\ UNCHANGED <<env, lock, entry, prompt, hist, got, sent, out, arg, past, reply>>
    /\ UNCHANGED <<clientVars, htmlVars>>

\* _ensure_agent, lines 280-282: the async with block ends, the agent is returned.
EnsureRelease(t) ==
    /\ pc[t] = "unlock"
    /\ lock' = NoTask
    /\ got' = [got EXCEPT ![t] = agent]
    /\ pc' = [pc EXCEPT ![t] = "invoke"]
    /\ UNCHANGED <<env, agent, constructed, entry, prompt, hist, sent, net, out, arg, past, reply>>
    /\ UNCHANGED <<clientVars, htmlVars>>

\* ainvoke, lines 291-303: the message list is built and sent to the model.
InvokeModel(t) ==
    /\ pc[t] = "invoke"
    /\ sent' = [sent EXCEPT ![t] = BuildMessages(prompt[t], hist[t])]
    /\ net' = [net EXCEPT ![t].model = 1]
    /\ pc' = [pc EXCEPT ![t] = "await"]
    /\ UNCHANGED <<env, agent, lock, constructed, entry, prompt, hist, got, out, arg, past, reply>>
    /\ UNCHANGED <<clientVars, htmlVars>>

\* While ainvoke awaits the agent, the model has one of the tools request a
\* job API.
ToolCall(t) ==
    /\ pc[t] = "await"
    /\ net[t].jobapi < MaxToolCalls
    /\ net' = [net EXCEPT ![t].jobapi = @ + 1]
    /\ UNCHANGED <<env, agent, lock, constructed, pc, entry, prompt, hist, got, sent, out, arg, past, reply>>
    /\ UNCHANGED <<clientVars, htmlVars>>

\* ainvoke, lines 303-323: the agent's result arrives and is turned into text.
ModelReply(t, result) ==
    /\ pc[t] = "await"
    /\ out' = [out EXCEPT ![t] = Returned(ParseReply(result))]
    /\ reply' = [reply EXCEPT ![t] = result]
    /\ pc' = [pc EXCEPT ![t] = "done"]
    /\ UNCHANGED <<env, agent, lock, constructed, entry, prompt, hist, got, sent, net, arg, past>>
    /\ UNCHANGED <<clientVars, htmlVars>>

\* ainvoke, line 303: the await raises (the model cannot be reached).
ModelFail(t) ==
    /\ pc[t] = "await"
    /\ out' = [out EXCEPT ![t] = Fault(t, ModelError)]
    /\ pc' = [pc EXCEPT ![t] = "done"]
    /\ UNCHANGED <<env, agent, lock, constructed, entry, prompt, hist, got, sent, net, arg, past, reply>>
    /\ UNCHANGED <<clientVars, htmlVars>>

\* The caller has its answer; the task is free for the next request.
Finish(t) ==
    /\ pc[t] = "done"
    /\ pc' = [pc EXCEPT ![t] = "idle"]
    /\ entry' = [entry EXCEPT ![t] = "none"]
    /\ prompt' = [prompt EXCEPT ![t] = <<>>]
    /\ hist' = [hist EXCEPT ![t] = <<>>]
    /\ got' = [got EXCEPT ![t] = NoAgent]
    /\ sent' = [sent EXCEPT ![t] = <<>>]
    /\ net' = [net EXCEPT ![t] = [construct |-> 0, model |-> 0, jobapi |-> 0]]
    /\ out' = [out EXCEPT ![t] = NoOutcome]
    /\ arg' = [arg EXCEPT ![t] = Null]
    /\ past' = [past EXCEPT ![t] = Null]
    /\ reply' = [reply EXCEPT ![t] = Null]
    /\ UNCHANGED <<env, agent, lock, constructed>>
    /\ UNCHANGED <<clientVars, htmlVars>>

\* The steps of _ensure_agent and of the model call, for task t.
AgentSteps(t) ==
    \/ EnsureCheck1(t)
    \/ EnsureAcquire(t)
    \/ EnsureCheck2(t)
    \/ EnsureEnv(t)
    \/ EnsureConstruct(t)
    \/ EnsureRelease(t)
    \/ InvokeModel(t)
    \/ ToolCall(t)
    \/ ModelFail(t)
    \/ Finish(t)

\* Concurrent callers on one JobSearchAgent, every statement a step.
NextAgent ==
    LET ConcMessages == {Str(<<"a">>), Str(<<" ">>)}
        ConcReplies ==
            {EmptyDict, Dict([messages |-> List(<<Dict([content |-> Str(<<"a">>)])>>)])}
    IN  \E t \in Tasks :
            \/ \E m \in ConcMessages : Respond(t, m, Null)
            \/ \E m \in ConcMessages : Ainvoke(t, m.v, <<>>)
            \/ \E r \in ConcReplies : ModelReply(t, r)
            \/ AgentSteps(t)

SpecAgent == InitAgent /\ [][NextAgent]_vars

\* The process environment changes while the agent is in use: GOOGLE_API_KEY
\* is set or removed.
SetEnvironment(v) ==
    /\ env["GOOGLE_API_KEY"] # v
    /\ env' = [env EXCEPT !["GOOGLE_API_KEY"] = v]
    /\ UNCHANGED <<agent, lock, constructed, pc, entry, prompt, hist, got, sent, net, out,
                   arg, past, reply>>
    /\ UNCHANGED <<clientVars, htmlVars>>

\* The steps of _ensure_agent that need nothing but the event loop to run.
EnsureSteps(t) ==
    \/ EnsureCheck1(t)
    \/ EnsureCheck2(t)
    \/ EnsureEnv(t)
    \/ EnsureConstruct(t)
    \/ EnsureRelease(t)

\* Concurrent callers in a process whose credential comes and goes.
NextRecovery ==
    \/ \E t \in Tasks :
        \/ Respond(t, Str(<<"a">>), Null)
        \/ EnsureSteps(t)
        \/ EnsureAcquire(t)
        \/ InvokeModel(t)
        \/ ModelReply(t, Dict([messages |-> List(<<Dict([content |-> Str(<<"a">>)])>>)]))
        \/ Finish(t)
    \/ \E v \in {Null, Str(<<"set">>)} : SetEnvironment(v)

\* The event loop runs every coroutine that can run, and asyncio.Lock wakes
\* its waiters in turn, so a waiter gets the lock in the end.
SpecRecovery ==
    /\ InitAgent
    /\ [][NextRecovery]_vars
    /\ \A t \in Tasks : WF_vars(EnsureSteps(t)) /\ SF_vars(EnsureAcquire(t))

\* One caller at a time, over every message, history and reply.
NextChat ==
    \/ \E m \in Messages, h \in Histories : Respond(1, m, h)
    \/ \E p \in Texts, h \in TupleHistories : Ainvoke(1, p, h)
    \/ \E r \in Replies : ModelReply(1, r)
    \/ AgentSteps(1)

SpecChat == InitAgent /\ [][NextChat]_vars

---------------------------------------------------------------------------
\* Claims about the orchestrator.

CriticalSection == {"locked", "envcheck", "construct", "unlock"}

(* C1: however the callers of _ensure_agent interleave, create_react_agent *)
(* is called at most once, every caller that has its agent back holds the  *)
(* one instance, and a caller between taking and releasing the lock (the   *)
(* construction included) holds the lock, so any other caller is waiting.  *)
C1_SingleAgent ==
    /\ constructed <= 1
    /\ \A t \in Tasks : got[t] # NoAgent => (agent # NoAgent /\ got[t] = agent)
    /\ \A t \in Tasks : pc[t] \in CriticalSection => lock = t

\* Two callers hold the agent at once: one built it, the other reused it.
C1_Witness ==
    \E t1, t2 \in Tasks :
        /\ t1 # t2
        /\ got[t1] # NoAgent /\ got[t2] # NoAgent
        /\ net[t1].construct = 1 /\ net[t2].construct = 0
        /\ constructed = 1

AllWhite(s) == \A i \in 1..Len(s) : s[i] \in Whitespace

\* The message carries no text, or only whitespace.
BlankMessage(m) ==
    \/ m.t = "null"
    \/ m.t = "str" /\ AllWhite(m.v)
    \/ /\ m.t = "dict"
       /\ \/ "text" \notin DOMAIN m.v
          \/ m.v["text"].t = "null"
          \/ m.v["text"].t = "str" /\ AllWhite(m.v["text"].v)

NoNetwork == [construct |-> 0, model |-> 0, jobapi |-> 0]

(* C4: a call of respond or of ainvoke whose message is empty or only      *)
(* whitespace ends at once, rejected, and has not taken the agent, built   *)
(* it, sent anything to the model or requested a job API.                  *)
C4_EmptyRejected ==
    \A t \in Tasks :
        (entry[t] # "none" /\ BlankMessage(arg[t])) =>
            /\ pc[t] = "done"
            /\ net[t] = NoNetwork
            /\ got[t] = NoAgent
            /\ sent[t] = <<>>
            /\ out[t] = IF entry[t] = "respond" THEN Returned(EnterQuestion)
                        ELSE Raised(PromptEmptyError)

\* A whitespace-only message has been rejected by respond.
C4_Witness ==
    \E t \in Tasks :
        /\ entry[t] = "respond" /\ pc[t] = "done"
        /\ arg[t].t = "str" /\ arg[t].v # <<>> /\ AllWhite(arg[t].v)
        /\ out[t] = Returned(EnterQuestion)

\* The model's reply is entirely empty: no output messages, a final message
\* whose text is blank, or a segmented final message with no text fragment.
EntirelyEmpty(r) ==
    LET ms == IF r.t = "dict" THEN Get(r, "messages", Null) ELSE Null
        content == Get(ms.v[Len(ms.v)], "content", Null)
    IN  \/ ~Truthy(ms)
        \/ content.t = "str" /\ AllWhite(content.v)
        \/ content.t = "list" /\ TextParts(content.v) = <<>>

(* C5: whenever the model's reply is entirely empty, ainvoke returns the   *)
(* fallback notice "The agent returned an empty response."                 *)
C5_EmptyReplyFallback ==
    \A t \in Tasks :
        (pc[t] = "done" /\ net[t].model = 1 /\ out[t].kind = "return"
         /\ out[t] # Returned(<<"Warning: ">> \o ModelError)
         /\ EntirelyEmpty(reply[t]))
            => out[t] = Returned(EmptyNotice)

---------------------------------------------------------------------------
\* src/function_tool.py, lines 80-86: the description cleaner.
\* A description is a sequence of tokens: a character, a markup tag, or a
\* character entity.

MaxDescLen == 500
Ellipsis == <<".", ".", ".">>

Tags == {"<p>", "</p>", "<br/>"}
Entities == {"&lt;", "&gt;"}

\* The character an entity stands for.
Decode(tok) ==
    CASE tok = "&lt;" -> "<"
      [] tok = "&gt;" -> ">"
      [] OTHER -> tok

IsText(tok) == tok \notin Tags

\* A mutant of GetText: the tags are left in the text.
GetTextKeepTags(d) == [i \in 1..Len(d) |-> Decode(d[i])]

\* BeautifulSoup(description, 'html.parser').get_text(): the tags are dropped,
\* the entities decoded, the text between them kept.
GetText(d) ==
    LET kept == SelectSeq(d, IsText)
    IN  [i \in 1..Len(kept) |-> Decode(kept[i])]

NotRepeatedNewline(pair) == ~(pair[1] = "\n" /\ pair[2] = "\n")

\* re.sub(r'\n+', '\n', text): each run of newlines becomes one newline.
CollapseNewlines(text) ==
    LET pairs == [i \in 1..Len(text) |-> <<text[i], IF i > 1 THEN text[i - 1] ELSE "">>]
        kept == SelectSeq(pairs, NotRepeatedNewline)
    IN  [i \in 1..Len(kept) |-> kept[i][1]]

\* text[:500] + '...' if len(text) > 500 else text
Truncate(text) ==
    IF Len(text) > MaxDescLen THEN SubSeq(text, 1, MaxDescLen) \o Ellipsis ELSE text

\* Lines 82-86: a non-empty description is cleaned, an empty one is kept.
CleanDescription(d) ==
    IF d # <<>> THEN Truncate(Strip(CollapseNewlines(GetText(d)))) ELSE d

Pad(n) == [i \in 1..n |-> "a"]

Descriptions ==
    LET HtmlTokens == Tags \cup Entities \cup {"a", " ", "\n", ">"}
        HtmlHeads == SeqsUpTo(HtmlTokens, MaxHtmlHead)
        HtmlTails == {<<>>, <<"</p>">>, <<"\n", "\n", "a">>, <<"&gt;", " ">>}
        PadLens == {0, 1} \cup (MaxDescLen - 3)..(MaxDescLen + 3)
    IN  {h \o Pad(n) \o tl : h \in HtmlHeads, n \in PadLens, tl \in HtmlTails}

InitHtml ==
    /\ AgentIdle(Environment(Null, Null, Null))
    /\ ClientIdle
    /\ upstream = [kind |-> "timeout"]
    /\ html_in \in Descriptions
    /\ text_out = NoOutcome

\* The description goes through lines 81-86 of search_jobs_api.
CleanHtml ==
    /\ text_out = NoOutcome
    /\ text_out' = Returned(CleanDescription(html_in))
    /\ UNCHANGED <<agentVars, clientVars, html_in>>

NextHtml == CleanHtml

SpecHtml == InitHtml /\ [][NextHtml]_vars

(* C8, as amended: the cleaned description is at most 503 characters long  *)
(* (500 and the 3-character ellipsis) and holds no markup tag; a "<" or    *)
(* ">" is in it only where the description carried that character as an    *)
(* entity or as literal text.                                              *)
Delimiters == {"<", ">"}
CountIn(text, S) == Cardinality({i \in 1..Len(text) : text[i] \in S})
C8_StrippedBounded ==
    text_out.kind = "return" =>
        /\ Len(text_out.v) <= MaxDescLen + 3
        /\ \A i \in 1..Len(text_out.v) : text_out.v[i] \notin Tags
        /\ CountIn(text_out.v, Delimiters) <= CountIn(html_in, Entities \cup Delimiters)

\* A description with a tag and an entity in it was cut to 503 characters,
\* the tag gone and the entity's character kept.
C8_Witness ==
    /\ text_out.kind = "return"
    /\ Len(text_out.v) = MaxDescLen + 3
    /\ CountIn(html_in, Tags) > 0
    /\ CountIn(html_in, Entities) > 0
    /\ CountIn(text_out.v, Delimiters) > 0

(* C8, as stated: the cleaned description is at most 503 characters long   *)
(* and holds no "<" and no ">".                                            *)
C8_NoDelimiters ==
    text_out.kind = "return" =>
        /\ Len(text_out.v) <= MaxDescLen + 3
        /\ \A i \in 1..Len(text_out.v) : text_out.v[i] \notin Delimiters \cup Tags

---------------------------------------------------------------------------
\* src/function_tool.py: what the clients share.

NA == Str(<<"N/A">>)
Empty == Str(<<>>)

Failure(msg) == [success |-> FALSE, error |-> msg]

\* The except clauses: a requests exception, any other exception.
RequestFailed(text) == Failure(<<"API request failed: ">> \o text)
UnexpectedError(text) == Failure(<<"Unexpected error: ">> \o text)

\* str(e) of the exception requests.get or raise_for_status raises.
TransportText(u) ==
    CASE u.kind = "timeout" -> <<"Read timed out.">>
      [] u.kind = "connection" -> <<>>
      [] u.code >= 400 -> <<ToString(u.code), " Error">>
      [] OTHER -> <<"Expecting value">>

\* A mutant of TransportFails: raise_for_status is not called.
TransportFailsStatusUnchecked(u) ==
    \/ u.kind \in {"timeout", "connection"}
    \/ u.kind = "response" /\ u.body.t = "notjson"

\* requests.get raises, raise_for_status raises (4xx, 5xx), or response.json()
\* raises on a body that is no JSON document (a JSONDecodeError, which
\* requests derives from RequestException).
TransportFails(u) ==
    \/ u.kind \in {"timeout", "connection"}
    \/ u.kind = "response" /\ u.code >= 400
    \/ u.kind = "response" /\ u.body.t = "notjson"

\* x.get exists: x is a dict
HasGet(x) == x.t = "dict"

\* "key" in x: a dict's keys; a list or a str is searched; anything else
\* raises TypeError
InRaises(x) == x.t \notin {"dict", "list", "str"}
In(key, x) ==
    CASE x.t = "dict" -> key \in DOMAIN x.v
      [] x.t = "list" -> \E i \in 1..Len(x.v) : x.v[i] = Str(<<key>>)
      [] OTHER -> \E i \in 1..Len(x.v) : x.v[i] = key

\* x[key] with a str key raises unless x is a dict
IndexRaises(x) == x.t # "dict"

\* for item in x: the items of a list, the keys of a dict, the characters of
\* a str; anything else raises TypeError
IterRaises(x) == x.t \notin {"dict", "list", "str"}
RECURSIVE SetToSeq(_)
SetToSeq(S) ==
    IF S = {} THEN <<>>
    ELSE LET k == CHOOSE k \in S : TRUE IN <<Str(<<k>>)>> \o SetToSeq(S \ {k})
Items(x) ==
    CASE x.t = "list" -> x.v
      [] x.t = "dict" -> SetToSeq(DOMAIN x.v)
      [] OTHER -> [i \in 1..Len(x.v) |-> Str(<<x.v[i]>>)]

\* job.get(key, {}).get('caption', default)
CaptionRaises(job, key) == ~HasGet(Get(job, key, EmptyDict))
Caption(job, key, default) == Get(Get(job, key, EmptyDict), "caption", default)

\* [x.get('caption', '') for x in job.get(key, [])]
CaptionsRaises(job, key) ==
    LET xs == Get(job, key, List(<<>>))
    IN  \/ IterRaises(xs)
        \/ \E i \in 1..Len(Items(xs)) : ~HasGet(Items(xs)[i])
Captions(job, key) ==
    LET xs == Items(Get(job, key, List(<<>>)))
    IN  [i \in 1..Len(xs) |-> Get(xs[i], "caption", Empty)]

---------------------------------------------------------------------------
\* src/function_tool.py, lines 24-127: search_jobs_api.

MaxPerPage == 20
JobBoardTimeout == 10

\* A mutant of PerPageParam: the count is sent as given.
PerPageParamUnclamped(per_page_count) == per_page_count

\* Line 40: min(per_page_count, 20)
PerPageParam(per_page_count) ==
    IF per_page_count < MaxPerPage THEN per_page_count ELSE MaxPerPage

\* Lines 36-45: the request search_jobs_api issues.
JobBoardRequest(keywords, page, per_page_count) ==
    [host |-> "findsgjobs",
     endpoint |-> "searchable",
     params |-> [page |-> page,
                 per_page_count |-> PerPageParam(per_page_count),
                 keywords |-> keywords],
     timeout |-> JobBoardTimeout]

\* A mutant of SalaryInfo: the do-not-display flag is not looked at.
SalaryInfoFlagIgnored(job) ==
    IF /\ ~CaptionRaises(job, "Salaryrange")
       /\ ~CaptionRaises(job, "id_Job_Currency")
       /\ ~CaptionRaises(job, "id_Job_Interval")
       /\ Truthy(Caption(job, "Salaryrange", Null))
    THEN Str(PyStr(Caption(job, "id_Job_Currency", Str(<<"SGD">>))) \o <<" ">>
             \o PyStr(Caption(job, "Salaryrange", Null)) \o <<" per ">>
             \o PyStr(Caption(job, "id_Job_Interval", Str(<<"Month">>))))
    ELSE Null

\* Lines 72-78: the salary text, or None.
SalaryRaises(job) ==
    /\ ~Truthy(Get(job, "id_Job_Donotdisplaysalary", Num(0)))
    /\ \/ CaptionRaises(job, "Salaryrange")
       \/ /\ Truthy(Caption(job, "Salaryrange", Null))
          /\ \/ CaptionRaises(job, "id_Job_Currency")
             \/ CaptionRaises(job, "id_Job_Interval")
SalaryInfo(job) ==
    IF ~Truthy(Get(job, "id_Job_Donotdisplaysalary", Num(0)))
       /\ Truthy(Caption(job, "Salaryrange", Null))
    THEN Str(PyStr(Caption(job, "id_Job_Currency", Str(<<"SGD">>))) \o <<" ">>
             \o PyStr(Caption(job, "Salaryrange", Null)) \o <<" per ">>
             \o PyStr(Caption(job, "id_Job_Interval", Str(<<"Month">>))))
    ELSE Null

\* Lines 81-86: the description; BeautifulSoup takes markup that is a str.
DescriptionRaises(job) ==
    LET d == Get(job, "JobDescription", Empty) IN Truthy(d) /\ d.t # "str"
Description(job) ==
    LET d == Get(job, "JobDescription", Empty)
    IN  IF Truthy(d) THEN Str(CleanDescription(d.v)) ELSE d

\* Lines 68-105: one entry of data["result"] raises while it is mapped.
JobInfoRaises(item) ==
    \/ ~HasGet(item)
    \/ ~HasGet(Get(item, "job", EmptyDict))
    \/ ~HasGet(Get(item, "company", EmptyDict))
    \/ LET job == Get(item, "job", EmptyDict)
       IN  \/ SalaryRaises(job)
           \/ DescriptionRaises(job)
           \/ CaptionsRaises(job, "JobCategory")
           \/ CaptionsRaises(job, "EmploymentType")
           \/ CaptionsRaises(job, "id_Job_NearestMRTStation")
           \/ CaptionRaises(job, "MinimumYearsofExperience")
           \/ CaptionRaises(job, "MinimumEducationLevel")
           \/ CaptionRaises(job, "id_Job_PositionLevel")
           \/ CaptionRaises(job, "id_Job_WorkArrangement")

\* A mutant of JobInfo: the fields are read without a default.
JobInfoNoDefaults(item) ==
    LET job == Get(item, "job", EmptyDict)
        company == Get(item, "company", EmptyDict)
    IN  [job_id |-> Get(job, "id", Null),
         title |-> Get(job, "Title", Null),
         company |-> Get(company, "CompanyName", Null),
         url |-> IF Truthy(Get(job, "id", Null))
                 THEN Str(<<"https://www.findsgjobs.com/job/">> \o PyStr(Get(job, "id", Empty)))
                 ELSE Empty,
         categories |-> Captions(job, "JobCategory"),
         employment_type |-> Captions(job, "EmploymentType"),
         location |-> Captions(job, "id_Job_NearestMRTStation"),
         salary |-> SalaryInfo(job),
         experience |-> Caption(job, "MinimumYearsofExperience", Null),
         education |-> Caption(job, "MinimumEducationLevel", Null),
         position_level |-> Caption(job, "id_Job_PositionLevel", Null),
         work_arrangement |-> Caption(job, "id_Job_WorkArrangement", Null),
         skills |-> Get(job, "id_Job_Skills", Null),
         posted_date |-> Get(job, "activation_date", Null),
         expires_date |-> Get(job, "expiration_date", Null),
         description |-> Description(job)]

\* Lines 68-105: the record made of one entry of data["result"].
JobInfo(item) ==
    LET job == Get(item, "job", EmptyDict)
        company == Get(item, "company", EmptyDict)
    IN  [job_id |-> Get(job, "id", Empty),
         title |-> Get(job, "Title", NA),
         company |-> Get(company, "CompanyName", NA),
         url |-> IF Truthy(Get(job, "id", Null))
                 THEN Str(<<"https://www.findsgjobs.com/job/">> \o PyStr(Get(job, "id", Empty)))
                 ELSE Empty,
         categories |-> Captions(job, "JobCategory"),
         employment_type |-> Captions(job, "EmploymentType"),
         location |-> Captions(job, "id_Job_NearestMRTStation"),
         salary |-> SalaryInfo(job),
         experience |-> Caption(job, "MinimumYearsofExperience", NA),
         education |-> Caption(job, "MinimumEducationLevel", NA),
         position_level |-> Caption(job, "id_Job_PositionLevel", NA),
         work_arrangement |-> Caption(job, "id_Job_WorkArrangement", NA),
         skills |-> Get(job, "id_Job_Skills", List(<<>>)),
         posted_date |-> Get(job, "activation_date", NA),
         expires_date |-> Get(job, "expiration_date", NA),
         description |-> Description(job)]

\* Lines 55-107: the body raises while it is taken apart.
JobBoardBodyRaises(body) ==
    \/ InRaises(body)
    \/ /\ In("data", body)
       /\ \/ IndexRaises(body)
          \/ LET data == body.v["data"]
             IN  \/ InRaises(data)
                 \/ In("pager", data) /\ (IndexRaises(data) \/ ~HasGet(data.v["pager"]))
                 \/ /\ In("result", data)
                    /\ \/ IndexRaises(data)
                       \/ IterRaises(data.v["result"])
                       \/ \E i \in 1..Len(Items(data.v["result"])) :
                              JobInfoRaises(Items(data.v["result"])[i])

\* Lines 50-116: the result made of a body that is taken apart without a raise.
JobBoardSuccess(body, page) ==
    LET hasData == In("data", body)
        data == IF hasData THEN body.v["data"] ELSE EmptyDict
        pager == IF hasData /\ In("pager", data) THEN data.v["pager"] ELSE EmptyDict
        hasPager == hasData /\ In("pager", data)
        items == IF hasData /\ In("result", data) THEN Items(data.v["result"]) ELSE <<>>
        jobs == [i \in 1..Len(items) |-> JobInfo(items[i])]
    IN  [success |-> TRUE,
         total_jobs |-> IF hasPager THEN Get(pager, "record_count", Num(0)) ELSE Num(0),
         current_page |-> IF hasPager THEN Get(pager, "page", Num(page)) ELSE Num(page),
         total_pages |-> IF hasPager THEN Get(pager, "page_count", Num(0)) ELSE Num(0),
         results_on_page |-> Len(jobs),
         jobs |-> jobs]

\* Lines 44-127: what search_jobs_api(keywords, page, per_page_count) hands
\* back when the service answers its request with u.
search_jobs_api(keywords, page, per_page_count, u) ==
    IF TransportFails(u) THEN RequestFailed(TransportText(u))
    ELSE IF JobBoardBodyRaises(u.body) THEN UnexpectedError(<<"exception text">>)
    ELSE JobBoardSuccess(u.body, page)

---------------------------------------------------------------------------
\* src/function_tool.py, lines 130-195: calculate_job_statistics.
\* A dict of counts is a sequence of [k, n] in the order the keys were
\* first inserted.

TopN == 5

\* counts[key] = counts.get(key, 0) + 1
Increment(counts, key) ==
    IF \E i \in 1..Len(counts) : counts[i].k = key
    THEN [i \in 1..Len(counts) |->
            IF counts[i].k = key THEN [k |-> key, n |-> counts[i].n + 1] ELSE counts[i]]
    ELSE Append(counts, [k |-> key, n |-> 1])

RECURSIVE Tally(_, _)
Tally(keys, counts) ==
    IF keys = <<>> THEN counts
    ELSE Tally(Tail(keys), Increment(counts, Head(keys)))

\* A mutant of Counted: every value is counted, empty or not.
CountedAll(x) == TRUE

\* if category: / if emp_type: / if location:
Counted(x) == Truthy(x)

\* if education and education != "N/A":
CountedLevel(x) == Truthy(x) /\ x # NA

\* The values of a list field over the jobs, in the order the loop meets them.
RECURSIVE ListValues(_, _)
ListValues(jobs, field) ==
    IF jobs = <<>> THEN <<>>
    ELSE Head(jobs)[field] \o ListValues(Tail(jobs), field)

\* The values of a scalar field over the jobs.
FieldValues(jobs, field) == [i \in 1..Len(jobs) |-> jobs[i][field]]

\* A dict key must be hashable: a list or a dict raises TypeError.
Unhashable(x) == x.t \in {"dict", "list"}

\* Lines 157-181: the loop raises.
StatisticsRaises(jobs) ==
    \/ \E f \in {"categories", "employment_type", "location"} :
           \E i \in 1..Len(ListValues(jobs, f)) :
               Counted(ListValues(jobs, f)[i]) /\ Unhashable(ListValues(jobs, f)[i])
    \/ \E f \in {"education", "experience"} :
           \E i \in 1..Len(jobs) : CountedLevel(jobs[i][f]) /\ Unhashable(jobs[i][f])

\* Lines 159-171: the counts of one list facet.
ListFacet(jobs, field) == Tally(SelectSeq(ListValues(jobs, field), Counted), <<>>)

\* Lines 174-181: the counts of one scalar facet.
LevelFacet(jobs, field) == Tally(SelectSeq(FieldValues(jobs, field), CountedLevel), <<>>)

\* sorted(..., key=count, reverse=True): a stable sort, so entries of equal
\* count keep their order.
\* A mutant of InsertDesc: an entry goes in front of those of equal count.
RECURSIVE InsertDescTiesReversed(_, _)
InsertDescTiesReversed(x, sorted) ==
    IF sorted = <<>> THEN <<x>>
    ELSE IF Head(sorted).n > x.n
         THEN <<Head(sorted)>> \o InsertDescTiesReversed(x, Tail(sorted))
    ELSE <<x>> \o sorted

RECURSIVE InsertDesc(_, _)
InsertDesc(x, sorted) ==
    IF sorted = <<>> THEN <<x>>
    ELSE IF Head(sorted).n >= x.n THEN <<Head(sorted)>> \o InsertDesc(x, Tail(sorted))
    ELSE <<x>> \o sorted

RECURSIVE SortDesc(_, _)
SortDesc(items, sorted) ==
    IF items = <<>> THEN sorted
    ELSE SortDesc(Tail(items), InsertDesc(Head(items), sorted))

\* dict(sorted(counts.items(), key=lambda x: x[1], reverse=True)[:5])
Top(counts) ==
    LET ranked == SortDesc(counts, <<>>)
    IN  SubSeq(ranked, 1, IF Len(ranked) < TopN THEN Len(ranked) ELSE TopN)

\* Line 142: min(sample_size, 20)
SampleSize(sample_size) == IF sample_size < MaxPerPage THEN sample_size ELSE MaxPerPage

\* A mutant of calculate_job_statistics: the market total is the number of
\* jobs sampled.
calculate_job_statistics_sampled(keywords, sample_size, u) ==
    LET result == search_jobs_api(keywords, 1, SampleSize(sample_size), u)
    IN  IF ~result.success THEN Returned(result)
        ELSE IF StatisticsRaises(result.jobs) THEN Raised(<<"unhashable type">>)
        ELSE Returned(
            [success |-> TRUE,
             keyword |-> keywords,
             total_jobs_in_market |-> Num(Len(result.jobs)),
             jobs_analyzed |-> Len(result.jobs),
             statistics |->
                [top_categories |-> Top(ListFacet(result.jobs, "categories")),
                 employment_types |-> ListFacet(result.jobs, "employment_type"),
                 top_locations |-> Top(ListFacet(result.jobs, "location")),
                 education_requirements |-> LevelFacet(result.jobs, "education"),
                 experience_requirements |-> LevelFacet(result.jobs, "experience")]])

\* Lines 141-195: how calculate_job_statistics(keywords, sample_size) ends
\* when the service answers its request with u.
calculate_job_statistics(keywords, sample_size, u) ==
    LET result == search_jobs_api(keywords, 1, SampleSize(sample_size), u)
    IN  IF ~result.success THEN Returned(result)
        ELSE IF StatisticsRaises(result.jobs) THEN Raised(<<"unhashable type">>)
        ELSE Returned(
            [success |-> TRUE,
             keyword |-> keywords,
             total_jobs_in_market |-> result.total_jobs,
             jobs_analyzed |-> Len(result.jobs),
             statistics |->
                [top_categories |-> Top(ListFacet(result.jobs, "categories")),
                 employment_types |-> ListFacet(result.jobs, "employment_type"),
                 top_locations |-> Top(ListFacet(result.jobs, "location")),
                 education_requirements |-> LevelFacet(result.jobs, "education"),
                 experience_requirements |-> LevelFacet(result.jobs, "experience")]])

---------------------------------------------------------------------------
\* src/function_tool.py, lines 202-415: the Adzuna operations.

MaxResultsPerPage == 50
AdzunaTimeout == 15

CredentialsError ==
    <<"ADZUNA_APP_ID and ADZUNA_APP_KEY environment variables must be set">>
CredentialsErrorWithLink ==
    CredentialsError \o <<". Get your credentials from https://developer.adzuna.com/">>

\* A mutant of CredentialsMissing: the call is refused only when both are missing.
CredentialsBothMissing(e) == ~Truthy(e.ADZUNA_APP_ID) /\ ~Truthy(e.ADZUNA_APP_KEY)

\* if not app_id or not app_key:
CredentialsMissing(e) == ~Truthy(e.ADZUNA_APP_ID) \/ ~Truthy(e.ADZUNA_APP_KEY)

\* A place name is the sequence of its characters.
UpperCase == <<"A", "B", "C", "D", "E", "F", "G", "H", "I", "J", "K", "L", "M",
              "N", "O", "P", "Q", "R", "S", "T", "U", "V", "W", "X", "Y", "Z">>
LowerCase == <<"a", "b", "c", "d", "e", "f", "g", "h", "i", "j", "k", "l", "m",
              "n", "o", "p", "q", "r", "s", "t", "u", "v", "w", "x", "y", "z">>

\* A mutant of Lower: the name is compared as it was typed.
LowerSkipped(where) == where

\* where.lower()
Lower(where) ==
    [i \in 1..Len(where) |->
        IF \E n \in 1..Len(UpperCase) : UpperCase[n] = where[i]
        THEN LowerCase[CHOOSE n \in 1..Len(UpperCase) : UpperCase[n] = where[i]]
        ELSE where[i]]

\* Lines 234-240: the country code of a place name.
CountryCode(where) ==
    IF Lower(where) \in {<<"u", "k">>,
                         <<"u", "n", "i", "t", "e", "d", " ", "k", "i", "n", "g", "d", "o", "m">>,
                         <<"g", "b">>} THEN "gb"
    ELSE IF Lower(where) \in {<<"u", "s">>, <<"u", "s", "a">>,
                              <<"u", "n", "i", "t", "e", "d", " ", "s", "t", "a", "t", "e", "s">>} THEN "us"
    ELSE IF Lower(where) \in {<<"a", "u">>,
                              <<"a", "u", "s", "t", "r", "a", "l", "i", "a">>} THEN "au"
    ELSE "sg"

\* Line 247: min(results_per_page, 50)
ResultsPerPageParam(n) == IF n < MaxResultsPerPage THEN n ELSE MaxResultsPerPage

\* Lines 253-254, 338-339: the category is sent when it is given.
WithCategory(params, category) ==
    IF Truthy(category) THEN params @@ [category |-> category] ELSE params

\* Lines 242-257: the request search_adzuna_jobs issues.
AdzunaSearchRequest(e, what, where, page, results_per_page, sort_by, category) ==
    [host |-> "adzuna",
     endpoint |-> "search",
     country |-> CountryCode(where),
     page |-> page,
     params |-> WithCategory(
        [app_id |-> e.ADZUNA_APP_ID,
         app_key |-> e.ADZUNA_APP_KEY,
         results_per_page |-> ResultsPerPageParam(results_per_page),
         what |-> what,
         where |-> IF CountryCode(where) = "sg" THEN where ELSE <<>>,
         sort_by |-> sort_by], category),
     timeout |-> AdzunaTimeout]

\* len(x)
PyLen(x) == IF x.t = "dict" THEN Cardinality(DOMAIN x.v) ELSE Len(x.v)

\* Line 271: len() and the slice need a str (a list or a dict has a len, and
\* is passed on when it is short).
AdzunaDescriptionRaises(job) ==
    LET d == Get(job, "description", Empty)
    IN  \/ d.t \notin {"str", "list", "dict"}
        \/ d.t # "str" /\ PyLen(d) > MaxDescLen
AdzunaDescription(job) ==
    LET d == Get(job, "description", Empty)
    IN  IF PyLen(d) > MaxDescLen THEN Str(SubSeq(d.v, 1, MaxDescLen) \o Ellipsis) ELSE d

\* Lines 266-282: one entry of "results" raises while it is mapped.
AdzunaJobRaises(job) ==
    \/ ~HasGet(job)
    \/ ~HasGet(Get(job, "company", EmptyDict))
    \/ ~HasGet(Get(job, "location", EmptyDict))
    \/ ~HasGet(Get(job, "category", EmptyDict))
    \/ AdzunaDescriptionRaises(job)

\* Lines 266-282: the record made of one entry of "results".
AdzunaJobInfo(job) ==
    [job_id |-> Get(job, "id", Empty),
     title |-> Get(job, "title", NA),
     company |-> Get(Get(job, "company", EmptyDict), "display_name", NA),
     location |-> Get(Get(job, "location", EmptyDict), "display_name", NA),
     description |-> AdzunaDescription(job),
     created |-> Get(job, "created", NA),
     contract_type |-> Get(job, "contract_type", NA),
     contract_time |-> Get(job, "contract_time", NA),
     salary_min |-> Get(job, "salary_min", Null),
     salary_max |-> Get(job, "salary_max", Null),
     salary_is_predicted |-> Get(job, "salary_is_predicted", Bool(FALSE)),
     redirect_url |-> Get(job, "redirect_url", Empty),
     category |-> Get(Get(job, "category", EmptyDict), "label", NA),
     latitude |-> Get(job, "latitude", Null),
     longitude |-> Get(job, "longitude", Null)]

\* Lines 259-283: the body raises while it is taken apart.
AdzunaBodyRaises(body) ==
    \/ ~HasGet(body)
    \/ IterRaises(Get(body, "results", List(<<>>)))
    \/ \E i \in 1..Len(Items(Get(body, "results", List(<<>>)))) :
           AdzunaJobRaises(Items(Get(body, "results", List(<<>>)))[i])

\* Lines 256-303: what search_adzuna_jobs hands back, the credentials being
\* there, when the service answers its request with u.
search_adzuna_jobs(page, u) ==
    IF TransportFails(u) THEN RequestFailed(TransportText(u))
    ELSE IF AdzunaBodyRaises(u.body) THEN UnexpectedError(<<"exception text">>)
    ELSE LET results == Items(Get(u.body, "results", List(<<>>)))
             jobs == [i \in 1..Len(results) |-> AdzunaJobInfo(results[i])]
         IN  [success |-> TRUE,
              total_results |-> Get(u.body, "count", Num(0)),
              current_page |-> page,
              results_on_page |-> Len(jobs),
              mean_salary |-> Get(u.body, "mean", Num(0)),
              jobs |-> jobs]

\* Lines 329-342: the request get_adzuna_histogram issues.
HistogramRequest(e, location, category) ==
    [host |-> "adzuna",
     endpoint |-> "histogram",
     country |-> "sg",
     params |-> WithCategory(
        [app_id |-> e.ADZUNA_APP_ID, app_key |-> e.ADZUNA_APP_KEY, location0 |-> location],
        category),
     timeout |-> AdzunaTimeout]

\* Lines 341-362: what get_adzuna_histogram hands back, the credentials being
\* there.
get_adzuna_histogram(location, category, u) ==
    IF TransportFails(u) THEN RequestFailed(TransportText(u))
    ELSE IF ~HasGet(u.body) THEN UnexpectedError(<<"exception text">>)
    ELSE [success |-> TRUE,
          histogram |-> Get(u.body, "histogram", EmptyDict),
          location |-> location,
          category |-> category]

\* Lines 386-396: the request get_adzuna_top_companies issues.
TopCompaniesRequest(e, location) ==
    [host |-> "adzuna",
     endpoint |-> "top_companies",
     country |-> "sg",
     params |-> [app_id |-> e.ADZUNA_APP_ID, app_key |-> e.ADZUNA_APP_KEY,
                 location0 |-> location],
     timeout |-> AdzunaTimeout]

\* Lines 395-415: what get_adzuna_top_companies hands back, the credentials
\* being there.
get_adzuna_top_companies(location, u) ==
    IF TransportFails(u) THEN RequestFailed(TransportText(u))
    ELSE IF ~HasGet(u.body) THEN UnexpectedError(<<"exception text">>)
    ELSE [success |-> TRUE,
          top_companies |-> Get(u.body, "leaderboard", List(<<>>)),
          location |-> location]

---------------------------------------------------------------------------
\* What the remote services answer, and what the operations are called with.

With(d, k, v) == Dict((k :> v) @@ d.v)
Without(d, k) == Dict([x \in DOMAIN d.v \ {k} |-> d.v[x]])
Missing == [t |-> "missing"]
Opt(d, k, v) == IF v = Missing THEN Without(d, k) ELSE With(d, k, v)
Cap(text) == Dict([caption |-> Str(<<text>>)])
Caps(texts) == List([i \in 1..Len(texts) |-> Cap(texts[i])])

BaseJob ==
    Dict([id |-> Str(<<"J1">>),
          Title |-> Str(<<"Cook">>),
          JobDescription |-> Str(<<"<p>", "a", "\n", "\n", "&gt;", "a", "</p>", " ">>),
          JobCategory |-> Caps(<<"F&B">>),
          EmploymentType |-> Caps(<<"Full Time">>),
          id_Job_NearestMRTStation |-> Caps(<<"Bugis">>),
          id_Job_Donotdisplaysalary |-> Num(0),
          Salaryrange |-> Cap("3000-4000"),
          id_Job_Currency |-> Cap("USD"),
          id_Job_Interval |-> Cap("Year"),
          MinimumYearsofExperience |-> Cap("2 years"),
          MinimumEducationLevel |-> Cap("Diploma"),
          id_Job_PositionLevel |-> Cap("Junior"),
          id_Job_WorkArrangement |-> Cap("On-site"),
          id_Job_Skills |-> List(<<Str(<<"knife skills">>)>>),
          activation_date |-> Str(<<"2025-11-01">>),
          expiration_date |-> Str(<<"2025-12-01">>)])
BaseCompany == Dict([CompanyName |-> Str(<<"Acme">>)])
Entry(job, company) == Dict([job |-> job, company |-> company])

\* Entries that differ in their salary fields.
SalaryJobs ==
    {Opt(Opt(Opt(Opt(BaseJob, "id_Job_Donotdisplaysalary", f), "Salaryrange", r),
             "id_Job_Currency", c), "id_Job_Interval", n) :
        f \in {Missing, Num(0), Num(1), Bool(TRUE), Bool(FALSE), Null, Str(<<"0">>)},
        r \in {Missing, EmptyDict, Cap("3000-4000"), Dict([caption |-> Empty]), Null},
        c \in {Missing, Cap("USD")},
        n \in {Missing, Cap("Year"), Null}}

\* Entries that lack a field, or carry null or an empty object in its place.
SparseJobs ==
    {Opt(BaseJob, k, v) : k \in DOMAIN BaseJob.v, v \in {Missing, Null, EmptyDict}}
    \cup {EmptyDict}
SparseEntries ==
    {Entry(j, BaseCompany) : j \in SalaryJobs \cup SparseJobs}
    \cup {Entry(BaseJob, EmptyDict), Entry(BaseJob, Null), Dict([job |-> BaseJob]),
          Dict([company |-> BaseCompany]), EmptyDict, Str(<<"entry">>), Null}

\* Entries that differ in the fields the statistics count.
StatJob(cats, types, places, edu, exp) ==
    Dict([id |-> Str(<<"J">>),
          JobCategory |-> cats,
          EmploymentType |-> types,
          id_Job_NearestMRTStation |-> places,
          MinimumEducationLevel |-> edu,
          MinimumYearsofExperience |-> exp])
StatJobs ==
    {StatJob(Caps(<<"F&B", "Retail">>), Caps(<<"Full Time", "Part Time">>),
             Caps(<<"Bugis">>), Cap("Diploma"), Cap("2 years")),
     StatJob(Caps(<<"Retail">>), List(<<Cap("Full Time"), EmptyDict, Cap("")>>),
             List(<<>>), EmptyDict, Cap("N/A")),
     StatJob(Caps(<<"A", "B", "C", "Retail", "D", "E", "Retail">>), List(<<>>),
             Caps(<<"Bugis", "Orchard">>), Cap("Degree"), Cap("2 years")),
     StatJob(Caps(<<"E", "E">>), List(<<Dict([caption |-> List(<<Str(<<"x">>)>>)])>>),
             Caps(<<"Orchard">>), Cap("Diploma"), EmptyDict),
     StatJob(List(<<>>), Caps(<<"Part Time", "Part Time">>),
             Caps(<<"Orchard", "Bugis", "Orchard">>), Cap(""), Cap("5 years"))}

Pager == Dict([record_count |-> Num(120), page |-> Num(1), page_count |-> Num(6)])
JobBoardBody(pager, entries) == Dict([data |-> Dict([pager |-> pager, result |-> entries])])

JobBoardBodies ==
    {JobBoardBody(Pager, List(<<e>>)) : e \in SparseEntries}
    \cup {JobBoardBody(Pager, List([i \in 1..Len(js) |-> Entry(js[i], BaseCompany)])) :
            js \in SeqsUpTo(StatJobs, MaxJobs)}
    \cup {JobBoardBody(EmptyDict, List(<<Entry(BaseJob, BaseCompany)>>)),
          JobBoardBody(Null, List(<<>>)),
          JobBoardBody(Pager, Null),
          JobBoardBody(Pager, EmptyDict),
          JobBoardBody(Pager, Str(<<>>)),
          Dict([data |-> Dict([result |-> List(<<Entry(BaseJob, BaseCompany)>>)])]),
          Dict([data |-> Dict([pager |-> Pager])]),
          Dict([data |-> EmptyDict]),
          Dict([data |-> Null]),
          Dict([data |-> List(<<>>)]),
          Dict([data |-> List(<<Str(<<"pager">>)>>)]),
          Dict([error |-> Str(<<"bad request">>)])}

BaseAdzunaJob ==
    Dict([id |-> Str(<<"A1">>),
          title |-> Str(<<"Data Analyst">>),
          company |-> Dict([display_name |-> Str(<<"Acme">>)]),
          location |-> Dict([display_name |-> Str(<<"London">>)]),
          description |-> Str(<<"a", " ", "a">>),
          created |-> Str(<<"2025-11-01T00:00:00Z">>),
          contract_type |-> Str(<<"permanent">>),
          contract_time |-> Str(<<"full_time">>),
          salary_min |-> Num(3000),
          salary_max |-> Num(4000),
          salary_is_predicted |-> Str(<<"1">>),
          redirect_url |-> Str(<<"https://www.adzuna.sg/land/ad/1">>),
          category |-> Dict([label |-> Str(<<"IT Jobs">>)]),
          latitude |-> Num(1),
          longitude |-> Num(103)])
AdzunaJobs ==
    {Opt(BaseAdzunaJob, k, v) : k \in DOMAIN BaseAdzunaJob.v, v \in {Missing, Null, EmptyDict}}
    \cup {EmptyDict, Null,
          With(BaseAdzunaJob, "description", Str(Pad(MaxDescLen))),
          With(BaseAdzunaJob, "description", Str(Pad(MaxDescLen + 1)))}
AdzunaBodies ==
    {Dict([results |-> List(<<j>>), count |-> Num(1), mean |-> Num(3500)]) : j \in AdzunaJobs}
    \cup {Dict([results |-> List(<<BaseAdzunaJob, BaseAdzunaJob>>)]),
          Dict([results |-> Null]),
          Dict([count |-> Num(0)]),
          Dict([histogram |-> Dict([k3000 |-> Num(12), k4000 |-> Num(7)])]),
          Dict([histogram |-> Null]),
          Dict([leaderboard |-> List(<<Dict([canonical_name |-> Str(<<"Acme">>),
                                              count |-> Num(9)])>>)])}

Upstreams ==
    LET OtherBodies ==
            {[t |-> "notjson"], EmptyDict, Null, Num(0), Bool(TRUE), Str(<<"data">>),
             Str(<<>>), List(<<>>), List(<<Str(<<"data">>)>>), List(<<BaseAdzunaJob>>)}
        Bodies == JobBoardBodies \cup AdzunaBodies \cup OtherBodies
    IN
    {[kind |-> "timeout"], [kind |-> "connection"]}
    \cup {[kind |-> "response", code |-> 200, body |-> b] : b \in Bodies}
    \cup {[kind |-> "response", code |-> c, body |-> b] :
            c \in {404, 500},
            b \in {[t |-> "notjson"], EmptyDict, Dict([error |-> Str(<<"bad request">>)]),
                   JobBoardBody(Pager, List(<<Entry(BaseJob, BaseCompany)>>))}}

Pages == {1, 2}
Wheres ==
    {<<"S", "i", "n", "g", "a", "p", "o", "r", "e">>,
     <<"s", "i", "n", "g", "a", "p", "o", "r", "e">>,
     <<"J", "u", "r", "o", "n", "g">>,
     <<>>,
     <<"S", "G">>,
     <<"U", "K">>,
     <<"u", "k">>,
     <<"U", "k">>,
     <<"u", "K">>,
     <<"G", "B">>,
     <<"g", "b">>,
     <<"U", "n", "i", "t", "e", "d", " ", "K", "i", "n", "g", "d", "o", "m">>,
     <<"U", "N", "I", "T", "E", "D", " ", "K", "I", "N", "G", "D", "O", "M">>,
     <<"u", "n", "i", "t", "e", "d", " ", "K", "i", "n", "g", "d", "o", "m">>,
     <<"U", "S">>,
     <<"u", "s">>,
     <<"U", "S", "A">>,
     <<"u", "s", "a">>,
     <<"U", "s", "a">>,
     <<"U", "n", "i", "t", "e", "d", " ", "S", "t", "a", "t", "e", "s">>,
     <<"U", "N", "I", "T", "E", "D", " ", "S", "T", "A", "T", "E", "S">>,
     <<"A", "U">>,
     <<"a", "u">>,
     <<"A", "u", "s", "t", "r", "a", "l", "i", "a">>,
     <<"A", "U", "S", "T", "R", "A", "L", "I", "A">>,
     <<"E", "n", "g", "l", "a", "n", "d">>,
     <<"A", "m", "e", "r", "i", "c", "a">>,
     <<"U", "K", " ">>,
     <<"U", ".", "K", ".">>,
     <<"U", "n", "i", "t", "e", "d">>,
     <<"A", "u", "s", "t", "r", "i", "a">>}
Categories == {Null, Empty, Str(<<"it-jobs">>)}
AdzunaSearchArgs ==
    {[what |-> "data analyst", where |-> w, page |-> 1, results_per_page |-> 5,
      sort_by |-> "relevance", category |-> Null] : w \in Wheres}
    \cup {[what |-> "data analyst", where |-> <<"S", "i", "n", "g", "a", "p", "o", "r", "e">>, page |-> pg,
           results_per_page |-> n, sort_by |-> "date", category |-> c] :
            pg \in Pages,
            n \in {MaxResultsPerPage, MaxResultsPerPage + 1},
            c \in Categories}

---------------------------------------------------------------------------
\* The client operations, each call one step.

InitClients ==
    /\ \E id \in EnvValues, key \in EnvValues :
           AgentIdle(Environment(Str(<<"set">>), id, key))
    /\ ClientIdle
    /\ upstream \in Upstreams
    /\ HtmlIdle

\* A mutant of SearchJobsApi: a request that failed is sent a second time.
SearchJobsApiRetrying(keywords, page, per_page_count) ==
    /\ call.op = "none"
    /\ call' = [op |-> "search_jobs_api", keywords |-> keywords, page |-> page,
                per_page_count |-> per_page_count]
    /\ http' = IF TransportFails(upstream)
               THEN <<JobBoardRequest(keywords, page, per_page_count),
                      JobBoardRequest(keywords, page, per_page_count)>>
               ELSE <<JobBoardRequest(keywords, page, per_page_count)>>
    /\ ret' = Returned(search_jobs_api(keywords, page, per_page_count, upstream))
    /\ UNCHANGED <<agentVars, htmlVars, upstream>>

\* search_jobs_api(keywords, page, per_page_count)
SearchJobsApi(keywords, page, per_page_count) ==
    /\ call.op = "none"
    /\ call' = [op |-> "search_jobs_api", keywords |-> keywords, page |-> page,
                per_page_count |-> per_page_count]
    /\ http' = <<JobBoardRequest(keywords, page, per_page_count)>>
    /\ ret' = Returned(search_jobs_api(keywords, page, per_page_count, upstream))
    /\ UNCHANGED <<agentVars, htmlVars, upstream>>

\* calculate_job_statistics(keywords, sample_size)
CalculateJobStatistics(keywords, sample_size) ==
    /\ call.op = "none"
    /\ call' = [op |-> "calculate_job_statistics", keywords |-> keywords,
                sample_size |-> sample_size]
    /\ http' = <<JobBoardRequest(keywords, 1, SampleSize(sample_size))>>
    /\ ret' = calculate_job_statistics(keywords, sample_size, upstream)
    /\ UNCHANGED <<agentVars, htmlVars, upstream>>

\* search_adzuna_jobs(what, where, page, results_per_page, sort_by, category)
SearchAdzunaJobs(a) ==
    /\ call.op = "none"
    /\ call' = [op |-> "search_adzuna_jobs", args |-> a]
    /\ IF CredentialsMissing(env)
       THEN /\ http' = <<>>
            /\ ret' = Returned(Failure(CredentialsErrorWithLink))
       ELSE /\ http' = <<AdzunaSearchRequest(env, a.what, a.where, a.page,
                                             a.results_per_page, a.sort_by, a.category)>>
            /\ ret' = Returned(search_adzuna_jobs(a.page, upstream))
    /\ UNCHANGED <<agentVars, htmlVars, upstream>>

\* get_adzuna_histogram(location, category)
GetAdzunaHistogram(location, category) ==
    /\ call.op = "none"
    /\ call' = [op |-> "get_adzuna_histogram", location |-> location, category |-> category]
    /\ IF CredentialsMissing(env)
       THEN /\ http' = <<>>
            /\ ret' = Returned(Failure(CredentialsError))
       ELSE /\ http' = <<HistogramRequest(env, location, category)>>
            /\ ret' = Returned(get_adzuna_histogram(location, category, upstream))
    /\ UNCHANGED <<agentVars, htmlVars, upstream>>

\* get_adzuna_top_companies(location)
GetAdzunaTopCompanies(location) ==
    /\ call.op = "none"
    /\ call' = [op |-> "get_adzuna_top_companies", location |-> location]
    /\ IF CredentialsMissing(env)
       THEN /\ http' = <<>>
            /\ ret' = Returned(Failure(CredentialsError))
       ELSE /\ http' = <<TopCompaniesRequest(env, location)>>
            /\ ret' = Returned(get_adzuna_top_companies(location, upstream))
    /\ UNCHANGED <<agentVars, htmlVars, upstream>>

\* The caller has the result; the next call starts afresh (the operations
\* keep no state).
ClientReturn ==
    /\ call.op # "none"
    /\ call' = [op |-> "none"]
    /\ http' = <<>>
    /\ ret' = NoOutcome
    /\ UNCHANGED <<agentVars, htmlVars, upstream>>

NextClients ==
    LET Keywords == {"cook"}
        PerPageCounts == {1, 10, MaxPerPage - 1, MaxPerPage, MaxPerPage + 1, MaxPerPage + 5}
        SampleSizes == {1, MaxPerPage, MaxPerPage + 5}
        Locations == {"Singapore", "Jurong"}
    IN  \/ \E k \in Keywords, pg \in Pages, n \in PerPageCounts : SearchJobsApi(k, pg, n)
        \/ \E k \in Keywords, n \in SampleSizes : CalculateJobStatistics(k, n)
        \/ \E a \in AdzunaSearchArgs : SearchAdzunaJobs(a)
        \/ \E l \in Locations, c \in Categories : GetAdzunaHistogram(l, c)
        \/ \E l \in Locations : GetAdzunaTopCompanies(l)
        \/ ClientReturn

SpecClients == InitClients /\ [][NextClients]_vars

---------------------------------------------------------------------------
\* Claims about the client operations.

FourOps == {"search_jobs_api", "search_adzuna_jobs", "get_adzuna_histogram",
            "get_adzuna_top_companies"}
AdzunaOps == FourOps \ {"search_jobs_api"}

\* The request fails upstream: no answer, an error status, or a body that is
\* no JSON document.
UpstreamFails(u) ==
    \/ u.kind \in {"timeout", "connection"}
    \/ u.kind = "response" /\ (u.code < 200 \/ u.code > 299)
    \/ u.kind = "response" /\ u.body.t = "notjson"

\* The key under which each operation looks for its payload.
PayloadKey(op) ==
    CASE op = "search_jobs_api" -> "data"
      [] op = "search_adzuna_jobs" -> "results"
      [] op = "get_adzuna_histogram" -> "histogram"
      [] OTHER -> "leaderboard"

\* The body is JSON but not what the operation expects: no object, or an
\* object without the operation's payload, or a payload of the wrong type.
UnexpectedShape(op, u) ==
    /\ u.kind = "response" /\ u.body.t # "notjson"
    /\ \/ u.body.t # "dict"
       \/ PayloadKey(op) \notin DOMAIN u.body.v
       \/ u.body.v[PayloadKey(op)].t \notin {"dict", "list"}

CredentialsAbsent ==
    \/ env.ADZUNA_APP_ID \in {Null, Empty}
    \/ env.ADZUNA_APP_KEY \in {Null, Empty}

IsFailure(r) == r.kind = "return" /\ ~r.v.success /\ r.v.error # <<>>
IsSuccess(r) == r.kind = "return" /\ r.v.success

\* The payload an operation reports when the object it got has none.
EmptyPayload(op, r) ==
    CASE op = "search_jobs_api" -> r.jobs = <<>> /\ r.total_jobs = Num(0)
      [] op = "search_adzuna_jobs" -> r.jobs = <<>> /\ r.total_results = Num(0)
      [] op = "get_adzuna_histogram" -> r.histogram = EmptyDict
      [] OTHER -> r.top_companies = List(<<>>)

(* C2, as amended: each of the four client operations returns and never    *)
(* raises, whatever the service answers; it returns success=false with a   *)
(* non-empty error message on a timeout or connection error, an error      *)
(* status such as 500, a body that is no JSON, and a JSON body that is no  *)
(* object, array or string (for the Adzuna operations: no object); a JSON  *)
(* object that only lacks the operation's payload is no failure: it gives  *)
(* success=true with an empty payload.                                     *)
C2_FailuresStructured ==
    call.op \in FourOps =>
        /\ ret.kind = "return"
        /\ ~ret.v.success => ret.v.error # <<>>
        /\ UpstreamFails(upstream) => IsFailure(ret)
        /\ (/\ upstream.kind = "response" /\ upstream.code = 200
            /\ \/ upstream.body.t \in {"null", "num", "bool"}
               \/ call.op \in AdzunaOps /\ upstream.body.t \in {"list", "str"})
           => IsFailure(ret)
        /\ (/\ upstream.kind = "response" /\ upstream.code = 200
            /\ upstream.body.t = "dict"
            /\ PayloadKey(call.op) \notin DOMAIN upstream.body.v
            /\ call.op \in AdzunaOps => ~CredentialsAbsent)
           => IsSuccess(ret) /\ EmptyPayload(call.op, ret.v)

\* A request of get_adzuna_histogram was answered with status 500 and the
\* call handed back a failure.
C2_Witness ==
    /\ call.op = "get_adzuna_histogram"
    /\ http # <<>>
    /\ upstream.kind = "response" /\ upstream.code = 500
    /\ IsFailure(ret)

(* C2, as stated: for every upstream outcome that is a timeout or          *)
(* connection error, a non-2xx status, or a malformed or unexpectedly      *)
(* shaped body, each of the four client operations returns success=false   *)
(* with a non-empty error message and raises nothing.                      *)
C2_AlwaysFailure ==
    (/\ call.op \in FourOps
     /\ UpstreamFails(upstream) \/ UnexpectedShape(call.op, upstream))
        => IsFailure(ret)

(* C3: when ADZUNA_APP_ID or ADZUNA_APP_KEY is unset or empty, each of the *)
(* three Adzuna operations returns success=false with a message that names *)
(* the two variables, and issues no HTTP request.                          *)
C3_NoCredentialsNoRequest ==
    (call.op \in AdzunaOps /\ CredentialsAbsent) =>
        /\ IsFailure(ret)
        /\ Head(ret.v.error) = Head(CredentialsError)
        /\ http = <<>>

\* search_adzuna_jobs was refused with the identifier set and the key unset.
C3_Witness ==
    /\ call.op = "search_adzuna_jobs"
    /\ Truthy(env.ADZUNA_APP_ID) /\ env.ADZUNA_APP_KEY = Null
    /\ IsFailure(ret) /\ http = <<>>

(* C6: search_jobs_api issues its request with per_page_count equal to the *)
(* smaller of the count asked for and 20, so never above 20.               *)
C6_PerPageClamped ==
    call.op = "search_jobs_api" =>
        /\ Len(http) = 1
        /\ http[1].params.per_page_count <= MaxPerPage
        /\ call.per_page_count <= MaxPerPage
              => http[1].params.per_page_count = call.per_page_count
        /\ call.per_page_count > MaxPerPage => http[1].params.per_page_count = MaxPerPage

\* 25 per page were asked for and 20 were requested.
C6_Witness ==
    /\ call.op = "search_jobs_api"
    /\ call.per_page_count = MaxPerPage + 5
    /\ http[1].params.per_page_count = MaxPerPage

\* The entries of data.result the job board answered with.
SourceEntries ==
    IF /\ upstream.kind = "response" /\ upstream.body.t = "dict"
       /\ "data" \in DOMAIN upstream.body.v
       /\ upstream.body.v["data"].t = "dict"
       /\ "result" \in DOMAIN upstream.body.v["data"].v
       /\ upstream.body.v["data"].v["result"].t = "list"
    THEN upstream.body.v["data"].v["result"].v
    ELSE <<>>

SourceJob(i) == SourceEntries[i].v["job"]
HasField(d, k) == d.t = "dict" /\ k \in DOMAIN d.v
HasCaption(job, k) == HasField(job, k) /\ HasField(job.v[k], "caption")
CaptionText(job, k, default) ==
    IF HasCaption(job, k) THEN PyStr(job.v[k].v["caption"]) ELSE <<default>>

(* C7: in every record search_jobs_api returns, the salary is null when    *)
(* the entry's do-not-display-salary flag is truthy, whatever its salary   *)
(* fields hold; a salary is there only when the flag is falsy and the      *)
(* entry has a range caption, and then reads                               *)
(* "{currency} {range} per {interval}".                                    *)
C7_SalaryHonoursFlag ==
    (call.op = "search_jobs_api" /\ IsSuccess(ret)) =>
        \A i \in 1..Len(ret.v.jobs) :
            LET job == SourceJob(i)
                salary == ret.v.jobs[i].salary
            IN  HasField(SourceEntries[i], "job") =>
                /\ (HasField(job, "id_Job_Donotdisplaysalary")
                    /\ Truthy(job.v["id_Job_Donotdisplaysalary"])) => salary = Null
                /\ salary # Null =>
                    /\ ~(HasField(job, "id_Job_Donotdisplaysalary")
                         /\ Truthy(job.v["id_Job_Donotdisplaysalary"]))
                    /\ HasCaption(job, "Salaryrange")
                    /\ salary = Str(CaptionText(job, "id_Job_Currency", "SGD") \o <<" ">>
                                    \o CaptionText(job, "Salaryrange", "") \o <<" per ">>
                                    \o CaptionText(job, "id_Job_Interval", "Month"))

\* An entry with its flag set and a range, a currency and an interval came
\* back without a salary.
C7_Witness ==
    /\ call.op = "search_jobs_api" /\ IsSuccess(ret)
    /\ \E i \in 1..Len(ret.v.jobs) :
        /\ HasField(SourceEntries[i], "job")
        /\ HasField(SourceJob(i), "id_Job_Donotdisplaysalary")
        /\ Truthy(SourceJob(i).v["id_Job_Donotdisplaysalary"])
        /\ HasCaption(SourceJob(i), "Salaryrange")
        /\ Truthy(SourceJob(i).v["Salaryrange"].v["caption"])
        /\ HasCaption(SourceJob(i), "id_Job_Currency")
        /\ HasCaption(SourceJob(i), "id_Job_Interval")
        /\ ret.v.jobs[i].salary = Null

\* The job and the company of entry i, an entry without one counting as
\* one with no fields.
EntryPart(e, k) == IF HasField(e, k) THEN e.v[k] ELSE EmptyDict

\* Record field and source field, for the fields the job board client reads
\* directly and for those it reads through a caption.
JobBoardDirect == {<<"title", "Title">>, <<"posted_date", "activation_date">>,
                   <<"expires_date", "expiration_date">>}
JobBoardCaptioned == {<<"experience", "MinimumYearsofExperience">>,
                      <<"education", "MinimumEducationLevel">>,
                      <<"position_level", "id_Job_PositionLevel">>,
                      <<"work_arrangement", "id_Job_WorkArrangement">>}
JobBoardLists == {<<"categories", "JobCategory">>, <<"employment_type", "EmploymentType">>,
                  <<"location", "id_Job_NearestMRTStation">>}

\* The same for the Adzuna client: direct fields and fields read through a
\* nested object.
AdzunaDirect == {<<"title", "title">>, <<"created", "created">>,
                 <<"contract_type", "contract_type">>, <<"contract_time", "contract_time">>}
AdzunaNested == {<<"company", "company", "display_name">>,
                 <<"location", "location", "display_name">>,
                 <<"category", "category", "label">>}
AdzunaNullable == {"salary_min", "salary_max", "latitude", "longitude"}

AdzunaEntries ==
    IF /\ upstream.kind = "response" /\ upstream.body.t = "dict"
       /\ "results" \in DOMAIN upstream.body.v
       /\ upstream.body.v["results"].t = "list"
    THEN upstream.body.v["results"].v
    ELSE <<>>

(* C9, as amended: in every record of either client a field missing from   *)
(* the source is null only if it is salary (job board) or salary_min,      *)
(* salary_max, latitude or longitude (Adzuna); the descriptive fields      *)
(* (title, company, experience, education, position level, work            *)
(* arrangement, posted and expiry date; title, company, location, created, *)
(* contract type, contract time, category) render as "N/A", the            *)
(* identifier, the link and the description as the empty string, the list  *)
(* fields as the empty list and salary_is_predicted as false.              *)
C9_MissingFieldDefaults ==
    /\ (call.op = "search_jobs_api" /\ IsSuccess(ret)) =>
        \A i \in 1..Len(ret.v.jobs) :
            LET job == EntryPart(SourceEntries[i], "job")
                company == EntryPart(SourceEntries[i], "company")
                rec == ret.v.jobs[i]
            IN  /\ \A p \in JobBoardDirect : ~HasField(job, p[2]) => rec[p[1]] = NA
                /\ \A p \in JobBoardCaptioned : ~HasCaption(job, p[2]) => rec[p[1]] = NA
                /\ ~HasField(company, "CompanyName") => rec.company = NA
                /\ ~HasField(job, "id") => rec.job_id = Empty /\ rec.url = Empty
                /\ ~HasField(job, "JobDescription") => rec.description = Empty
                /\ \A p \in JobBoardLists : ~HasField(job, p[2]) => rec[p[1]] = <<>>
                /\ ~HasField(job, "id_Job_Skills") => rec.skills = List(<<>>)
                /\ ~HasCaption(job, "Salaryrange") => rec.salary = Null
    /\ (call.op = "search_adzuna_jobs" /\ IsSuccess(ret)) =>
        \A i \in 1..Len(ret.v.jobs) :
            LET job == AdzunaEntries[i]
                rec == ret.v.jobs[i]
            IN  /\ \A p \in AdzunaDirect : ~HasField(job, p[2]) => rec[p[1]] = NA
                /\ \A p \in AdzunaNested :
                       ~(HasField(job, p[2]) /\ HasField(job.v[p[2]], p[3])) => rec[p[1]] = NA
                /\ ~HasField(job, "id") => rec.job_id = Empty
                /\ ~HasField(job, "description") => rec.description = Empty
                /\ ~HasField(job, "redirect_url") => rec.redirect_url = Empty
                /\ ~HasField(job, "salary_is_predicted") => rec.salary_is_predicted = Bool(FALSE)
                /\ \A f \in AdzunaNullable : ~HasField(job, f) => rec[f] = Null

\* search_adzuna_jobs returned a record made of an entry with neither a title
\* nor a latitude: the title reads "N/A", the latitude is null.
C9_Witness ==
    /\ call.op = "search_adzuna_jobs" /\ IsSuccess(ret)
    /\ \E i \in 1..Len(ret.v.jobs) :
        /\ ~HasField(AdzunaEntries[i], "title")
        /\ ~HasField(AdzunaEntries[i], "latitude")
        /\ ret.v.jobs[i].title = NA
        /\ ret.v.jobs[i].latitude = Null

\* Every field of a record but the salary fields, with the source field it
\* is made of.
JobBoardFields ==
    JobBoardDirect \cup JobBoardCaptioned \cup JobBoardLists
    \cup {<<"job_id", "id">>, <<"url", "id">>, <<"description", "JobDescription">>,
          <<"skills", "id_Job_Skills">>}
AdzunaFields ==
    AdzunaDirect \cup {<<p[1], p[2]>> : p \in AdzunaNested}
    \cup {<<"job_id", "id">>, <<"description", "description">>,
          <<"redirect_url", "redirect_url">>,
          <<"salary_is_predicted", "salary_is_predicted">>,
          <<"latitude", "latitude">>, <<"longitude", "longitude">>}

(* C9, as stated: in every record of either client a field missing from    *)
(* the source renders as "N/A" and is never null, the salary fields alone  *)
(* excepted.                                                               *)
C9_MissingIsNA ==
    /\ (call.op = "search_jobs_api" /\ IsSuccess(ret)) =>
        \A i \in 1..Len(ret.v.jobs) : \A p \in JobBoardFields \cup {<<"company", "company">>} :
            LET src == IF p[1] = "company" THEN EntryPart(SourceEntries[i], "company")
                       ELSE EntryPart(SourceEntries[i], "job")
                key == IF p[1] = "company" THEN "CompanyName" ELSE p[2]
            IN  ~HasField(src, key) => ret.v.jobs[i][p[1]] = NA
    /\ (call.op = "search_adzuna_jobs" /\ IsSuccess(ret)) =>
        \A i \in 1..Len(ret.v.jobs) : \A p \in AdzunaFields :
            ~HasField(AdzunaEntries[i], p[2]) => ret.v.jobs[i][p[1]] = NA

RECURSIVE SumCounts(_)
SumCounts(counts) == IF counts = <<>> THEN 0 ELSE Head(counts).n + SumCounts(Tail(counts))

\* The employment-type list of entry i as the job board sent it.
SourceTypes(i) ==
    LET job == EntryPart(SourceEntries[i], "job")
    IN  IF HasField(job, "EmploymentType") THEN job.v["EmploymentType"].v ELSE <<>>

RECURSIVE SumOver(_, _)
SumOver(F(_), n) == IF n = 0 THEN 0 ELSE F(n) + SumOver(F, n - 1)

TypesListed(i) == Len(SourceTypes(i))
TypesNamed(i) ==
    Cardinality({j \in 1..Len(SourceTypes(i)) :
                    HasField(SourceTypes(i)[j], "caption")
                    /\ Truthy(SourceTypes(i)[j].v["caption"])})

StatisticsSucceeded ==
    call.op = "calculate_job_statistics" /\ IsSuccess(ret)

(* C10, as amended: for every successful calculate_job_statistics call the *)
(* counts of the employment_types facet add up to the number of non-empty  *)
(* entries in the sampled jobs' employment-type lists (to the sum of the   *)
(* lists' lengths when no entry is empty), and jobs_analyzed is the number *)
(* of sampled jobs.                                                        *)
C10_EmploymentCounts ==
    StatisticsSucceeded =>
        /\ ret.v.jobs_analyzed = Len(SourceEntries)
        /\ SumCounts(ret.v.statistics.employment_types)
              = SumOver(TypesNamed, Len(SourceEntries))
        /\ SumCounts(ret.v.statistics.employment_types)
              <= SumOver(TypesListed, Len(SourceEntries))

\* Two jobs were sampled, one with an employment type that has no name, and
\* the named ones were counted.
C10_Witness ==
    /\ StatisticsSucceeded
    /\ Len(SourceEntries) = 2
    /\ SumOver(TypesNamed, 2) > 0
    /\ SumOver(TypesNamed, 2) < SumOver(TypesListed, 2)
    /\ Len(ret.v.statistics.employment_types) = 2

(* C10, as stated: for every successful calculate_job_statistics call the  *)
(* counts of the employment_types facet add up to the sum of the lengths   *)
(* of the sampled jobs' employment-type lists.                             *)
C10_CountsEqualLengths ==
    StatisticsSucceeded =>
        SumCounts(ret.v.statistics.employment_types)
            = SumOver(TypesListed, Len(SourceEntries))

---------------------------------------------------------------------------
\* The ranked facets.

\* The captions of one list field of entry i as the job board sent them.
SourceCaptions(i, key) ==
    LET job == EntryPart(SourceEntries[i], "job")
        items == IF HasField(job, key) /\ job.v[key].t = "list" THEN job.v[key].v ELSE <<>>
    IN  [j \in 1..Len(items) |->
            IF HasField(items[j], "caption") THEN items[j].v["caption"] ELSE Empty]

\* The non-empty captions of one list field over the first n entries, in the
\* order of the job list.
RECURSIVE Encountered(_, _)
Encountered(key, n) ==
    IF n = 0 THEN <<>>
    ELSE Encountered(key, n - 1) \o SelectSeq(SourceCaptions(n, key), Truthy)

Occurrences(seen, k) == {i \in 1..Len(seen) : seen[i] = k}
FirstSeen(seen, k) == CHOOSE i \in Occurrences(seen, k) : \A j \in Occurrences(seen, k) : i <= j

\* a ranks before b: a higher count, or the same count and met earlier.
RanksBefore(seen, a, b) ==
    \/ Cardinality(Occurrences(seen, a)) > Cardinality(Occurrences(seen, b))
    \/ /\ Cardinality(Occurrences(seen, a)) = Cardinality(Occurrences(seen, b))
       /\ FirstSeen(seen, a) < FirstSeen(seen, b)

\* top is the ranking of the captions in seen, cut after TopN entries.
IsTopOf(top, seen) ==
    LET keys == {seen[i] : i \in 1..Len(seen)}
        kept == {top[i].k : i \in 1..Len(top)}
    IN  /\ Len(top) <= TopN
        /\ Len(top) = IF Cardinality(keys) < TopN THEN Cardinality(keys) ELSE TopN
        /\ \A i \in 1..Len(top) :
               /\ top[i].k \in keys
               /\ top[i].n = Cardinality(Occurrences(seen, top[i].k))
        /\ \A i, j \in 1..Len(top) : i < j => RanksBefore(seen, top[i].k, top[j].k)
        /\ \A k \in keys \ kept : \A i \in 1..Len(top) : RanksBefore(seen, top[i].k, k)

(* C11: for every successful calculate_job_statistics call, top_categories *)
(* and top_locations each hold at most 5 entries, in descending order of   *)
(* count, which are the highest-count entries of the full facet; entries   *)
(* of equal count keep the order in which they were first met in the job   *)
(* list.                                                                   *)
C11_TopFacetsRanked ==
    StatisticsSucceeded =>
        /\ IsTopOf(ret.v.statistics.top_categories,
                   Encountered("JobCategory", Len(SourceEntries)))
        /\ IsTopOf(ret.v.statistics.top_locations,
                   Encountered("id_Job_NearestMRTStation", Len(SourceEntries)))

\* More than 5 categories were met, the one ranked first was not the first
\* met, two of the 5 kept have the same count, and one of that count was
\* cut off; the two locations have different counts.
C11_Witness ==
    /\ StatisticsSucceeded
    /\ LET top == ret.v.statistics.top_categories
           seen == Encountered("JobCategory", Len(SourceEntries))
       IN  /\ Len(top) = TopN
           /\ Cardinality({seen[i] : i \in 1..Len(seen)}) > TopN
           /\ top[1].k # seen[1]
           /\ top[1].n > top[2].n
           /\ top[4].n = top[5].n
           /\ \E i \in 1..Len(seen) :
                  /\ \A j \in 1..TopN : top[j].k # seen[i]
                  /\ Cardinality(Occurrences(seen, seen[i])) = top[5].n
    /\ Len(ret.v.statistics.top_locations) = 2
    /\ ret.v.statistics.top_locations[1].n > ret.v.statistics.top_locations[2].n

---------------------------------------------------------------------------
\* The message list sent to the model.

\* The prior turns task t's call was given.
PriorTurns(t) == IF past[t].t = "list" THEN past[t].v ELSE <<>>

\* Every prior turn is a (user text, assistant text) pair.
PairHistory(t) ==
    \A i \in 1..Len(PriorTurns(t)) :
        /\ PriorTurns(t)[i].t = "list"
        /\ Len(PriorTurns(t)[i].v) = 2
        /\ PriorTurns(t)[i].v[1].t = "str"
        /\ PriorTurns(t)[i].v[2].t = "str"

\* The user message of task t's call as it was typed.
TypedText(t) ==
    IF arg[t].t = "dict" THEN arg[t].v["text"].v ELSE arg[t].v

\* The user and assistant messages of the turns, in order; an empty text
\* gives a message only if keepEmpty.
RECURSIVE TurnMessages(_, _)
TurnMessages(turns, keepEmpty) ==
    IF turns = <<>> THEN <<>>
    ELSE LET user == Head(turns).v[1].v
             assistant == Head(turns).v[2].v
         IN  (IF keepEmpty \/ user # <<>> THEN <<HumanMessage(user)>> ELSE <<>>)
             \o (IF keepEmpty \/ assistant # <<>> THEN <<AIMessage(assistant)>> ELSE <<>>)
             \o TurnMessages(Tail(turns), keepEmpty)

\* Task t's call has sent its message list to the model.
HasSent(t) == pc[t] \in {"await", "done"} /\ sent[t] # <<>>

(* C12, as amended: for every non-blank user message and every prior       *)
(* history of (user text, assistant text) pairs, the message list sent to  *)
(* the model is the fixed system preamble first, then for every prior turn *)
(* in chronological order its user text and then its assistant text, each  *)
(* verbatim, where an empty text gives no message, then the new user       *)
(* message, trimmed of surrounding whitespace, last.                       *)
C12_MessageList ==
    \A t \in Tasks :
        (HasSent(t) /\ PairHistory(t)) =>
            sent[t] = <<SystemMessage(SYSTEM_PROMPT)>>
                      \o TurnMessages(PriorTurns(t), FALSE)
                      \o <<HumanMessage(Strip(TypedText(t)))>>

\* The chat surface handed over two prior turns, the second without an
\* assistant text, and a message with a leading blank; five messages went
\* to the model.
C12_Witness ==
    \E t \in Tasks :
        /\ HasSent(t) /\ PairHistory(t)
        /\ entry[t] = "respond"
        /\ Len(PriorTurns(t)) = 2
        /\ PriorTurns(t)[1] # PriorTurns(t)[2]
        /\ PriorTurns(t)[2].v[2].v = <<>>
        /\ Head(TypedText(t)) = " "
        /\ Len(sent[t]) = 5

(* C12, as stated: for every non-empty user message and every prior        *)
(* history, the message list sent to the model is exactly the fixed system *)
(* preamble, then every prior turn's user text and assistant text verbatim *)
(* in chronological order with no turn dropped or altered, then the new    *)
(* user message.                                                           *)
C12_HistoryVerbatim ==
    \A t \in Tasks :
        (HasSent(t) /\ PairHistory(t)) =>
            sent[t] = <<SystemMessage(SYSTEM_PROMPT)>>
                      \o TurnMessages(PriorTurns(t), TRUE)
                      \o <<HumanMessage(TypedText(t))>>

---------------------------------------------------------------------------
\* Requests per call.

FiveOps == FourOps \cup {"calculate_job_statistics"}

(* C13: no retries: every call of a client operation (search_jobs_api,     *)
(* calculate_job_statistics, search_adzuna_jobs, get_adzuna_histogram,     *)
(* get_adzuna_top_companies) issues at most one HTTP request, and when     *)
(* that request fails the call hands the failure back with no second       *)
(* request.                                                                *)
C13_NoRetries ==
    call.op \in FiveOps =>
        /\ Len(http) <= 1
        /\ (http # <<>> /\ UpstreamFails(upstream)) =>
               /\ Len(http) = 1
               /\ IsFailure(ret)

\* The one request of calculate_job_statistics timed out and the call
\* handed back the failure.
C13_Witness ==
    /\ call.op = "calculate_job_statistics"
    /\ upstream.kind = "timeout"
    /\ Len(http) = 1
    /\ IsFailure(ret)

---------------------------------------------------------------------------
\* The country of a search_adzuna_jobs request.

\* Two characters are the same letter in either case, or the same character.
SameLetter(a, b) ==
    \/ a = b
    \/ \E n \in 1..Len(UpperCase) : {a, b} = {UpperCase[n], LowerCase[n]}

\* Two names are the same when case is ignored.
SameIgnoringCase(a, b) ==
    Len(a) = Len(b) /\ \A i \in 1..Len(a) : SameLetter(a[i], b[i])

\* The lookup table: names and the code they stand for.
CountryTable ==
    {[name |-> <<"U", "n", "i", "t", "e", "d", " ", "K", "i", "n", "g", "d", "o", "m">>, code |-> "gb"],
     [name |-> <<"U", "K">>, code |-> "gb"],
     [name |-> <<"G", "B">>, code |-> "gb"],
     [name |-> <<"U", "S">>, code |-> "us"],
     [name |-> <<"U", "S", "A">>, code |-> "us"],
     [name |-> <<"U", "n", "i", "t", "e", "d", " ", "S", "t", "a", "t", "e", "s">>, code |-> "us"],
     [name |-> <<"A", "U">>, code |-> "au"],
     [name |-> <<"A", "u", "s", "t", "r", "a", "l", "i", "a">>, code |-> "au"]}

Recognized(where) == {row \in CountryTable : SameIgnoringCase(row.name, where)}

AdzunaSearchSent ==
    call.op = "search_adzuna_jobs" /\ ~CredentialsAbsent

(* C14: for every search_adzuna_jobs call with credentials present, the    *)
(* country segment of the outgoing request path is the code the lookup     *)
(* table gives for `where` compared case-insensitively (United Kingdom,    *)
(* UK, GB: gb; US, USA, United States: us; AU, Australia: au) and is sg    *)
(* for every `where` the table does not hold.                              *)
C14_CountrySegment ==
    AdzunaSearchSent =>
        /\ Len(http) = 1
        /\ http[1].endpoint = "search"
        /\ \A row \in Recognized(call.args.where) : http[1].country = row.code
        /\ Recognized(call.args.where) = {} => http[1].country = "sg"

\* A search for a place typed "united Kingdom" went out on the gb path.
C14_Witness ==
    /\ AdzunaSearchSent
    /\ call.args.where = <<"u", "n", "i", "t", "e", "d", " ", "K", "i", "n", "g", "d", "o", "m">>
    /\ Len(http) = 1
    /\ http[1].country = "gb"

---------------------------------------------------------------------------
\* calculate_job_statistics and the search under it.

\* The total record count the job board reported (0 when it reported none).
SourceRecordCount ==
    IF /\ upstream.kind = "response" /\ upstream.body.t = "dict"
       /\ "data" \in DOMAIN upstream.body.v
       /\ HasField(upstream.body.v["data"], "pager")
       /\ HasField(upstream.body.v["data"].v["pager"], "record_count")
    THEN upstream.body.v["data"].v["pager"].v["record_count"]
    ELSE Num(0)

StatisticsCalled == call.op = "calculate_job_statistics"

(* C15: when the job-board search under calculate_job_statistics fails,    *)
(* the call returns the search's failure result unchanged (success=false   *)
(* and the search's error message, nothing else) and aggregates nothing;   *)
(* when it succeeds, total_jobs_in_market is the total record count the    *)
(* search reported and not the number of jobs sampled.                     *)
C15_FailureVerbatimTotalFromSearch ==
    StatisticsCalled =>
        /\ UpstreamFails(upstream) =>
               ret = Returned(Failure(<<"API request failed: ">> \o TransportText(upstream)))
        /\ (ret.kind = "return" /\ ~ret.v.success) =>
               /\ DOMAIN ret.v = {"success", "error"}
               /\ ret.v.error # <<>>
               /\ Head(ret.v.error) \in {"API request failed: ", "Unexpected error: "}
        /\ IsSuccess(ret) =>
               /\ ret.v.total_jobs_in_market = SourceRecordCount
               /\ ret.v.jobs_analyzed = Len(SourceEntries)
               /\ "statistics" \in DOMAIN ret.v

\* The search was answered with status 500 and calculate_job_statistics
\* handed back the search's failure.
C15_Witness ==
    /\ StatisticsCalled
    /\ upstream.kind = "response" /\ upstream.code = 500
    /\ ret = Returned(Failure(<<"API request failed: ", "500", " Error">>))

---------------------------------------------------------------------------
\* A failed construction of the agent.

\* Task t is inside _ensure_agent.
Ensuring(t) == pc[t] \in {"ensure", "lock", "locked", "envcheck", "construct", "unlock"}

\* The error a caller without the credential gets.
KeyErrorOutcome(t) ==
    IF entry[t] = "respond" THEN Returned(<<"Warning: ">> \o GoogleKeyError)
    ELSE Raised(GoogleKeyError)

\* In this step task t's check of the credential ends its call.
KeyCheckFails(t) == pc[t] = "envcheck" /\ pc'[t] = "done"

\* What a step of the check of the credential does.
KeyCheckStep ==
    \A t \in Tasks :
        /\ KeyCheckFails(t) =>
               /\ ~Truthy(env["GOOGLE_API_KEY"])
               /\ out'[t] = KeyErrorOutcome(t)
               /\ agent = NoAgent /\ agent' = NoAgent
               /\ lock = t /\ lock' = NoTask
               /\ \A u \in Tasks \ {t} : out'[u] = out[u] /\ pc'[u] = pc[u]
        /\ (pc[t] = "envcheck" /\ pc'[t] # "envcheck" /\ Truthy(env["GOOGLE_API_KEY"])) =>
               pc'[t] = "construct"
        /\ (pc[t] = "construct" /\ pc'[t] # "construct") =>
               agent' # NoAgent /\ pc'[t] = "unlock"
        /\ (pc[t] = "unlock" /\ pc'[t] # "unlock") =>
               lock' = NoTask /\ got'[t] = agent /\ agent # NoAgent

(* C16: when _ensure_agent finds GOOGLE_API_KEY missing, the error goes to *)
(* that caller only, the agent stays unset and the lock is released, so    *)
(* every call of _ensure_agent, concurrent or later, ends (none waits for  *)
(* the lock forever); a call that finds the credential present constructs  *)
(* the agent and gets it.                                                  *)
C16_FailedConstructionRecovers ==
    /\ [][KeyCheckStep]_vars
    /\ \A t \in Tasks : Ensuring(t) ~> ~Ensuring(t)

\* One caller holds the error for the missing credential while another,
\* after the credential was set, has constructed the agent and got it.
C16_Witness ==
    \E t, u \in Tasks :
        /\ pc[t] = "done" /\ out[t] = KeyErrorOutcome(t)
        /\ pc[u] = "invoke" /\ net[u].construct = 1
        /\ got[u] = agent /\ agent # NoAgent
        /\ lock = NoTask

====
